---- MODULE Spec2Model ----
(***************************************************************************)
(* The WebAssembly-to-interpreter-bytecode translator of wabt              *)
(* (src/binary-reader-interpreter.cc): the BinaryReaderInterpreter         *)
(* callbacks driven by the binary decoder, and read_binary_interpreter,    *)
(* which marks the environment, runs the decoder and commits or rolls      *)
(* back.                                                                   *)
(*                                                                         *)
(* Indices are 0-based as in the C++ code; TLA+ sequences are 1-based, so  *)
(* element i of a vector v is v[i + 1] (operator At).  A uint32 is kept as *)
(* its 32-bit pattern read as a signed integer, so ~0 is -1.               *)
(***************************************************************************)
EXTENDS Integers, Sequences, FiniteSets, TLC

VARIABLES
  env,         \* the Environment: sigs, funcs, tables, memories, globals, modules, istream
  reader,      \* the fields of the BinaryReaderInterpreter object
  errors,      \* the diagnostics the BinaryErrorHandler has received, in order
  dec,         \* the decoder's position in the module being read
  last,        \* the last callback the decoder made: its name, arguments and result
  pc,          \* "reading" | "failed" (a callback returned Error) | "ended" | "returned"
  out_module   \* *out_module of read_binary_interpreter: "unset", "null" or a module index

vars == <<env, reader, errors, dec, last, pc, out_module>>

(***************************************************************************)
(* Bounds of the model.                                                    *)
(***************************************************************************)
MaxTypes == 2
MaxImports == 2
MaxFuncs == 2
MaxGlobals == 2
MaxExports == 2
MaxSegments == 2
MaxElems == 2
MaxInstr == 2

(***************************************************************************)
(* Program constants.                                                      *)
(***************************************************************************)
kInvalidIndex == -1
kInvalidIstreamOffset == -1
WABT_PAGE_SIZE == 65536

(***************************************************************************)
(* Vectors with 0-based indices.                                           *)
(***************************************************************************)
At(v, i) == v[i + 1]

SetAt(v, i, x) == [v EXCEPT ![i + 1] = x]

Fill(n, x) == [k \in 1..n |-> x]

Resize(v, n, x) == IF n <= Len(v) THEN SubSeq(v, 1, n) ELSE v \o Fill(n - Len(v), x)

EraseFrom(v, n) == IF n < Len(v) THEN SubSeq(v, 1, n) ELSE v

(***************************************************************************)
(* BindingHash: a finite map from names to indices; find_index gives -1    *)
(* for a name that is not bound.                                           *)
(***************************************************************************)
NoBindings == [n \in {} |-> 0]

FindIndex(b, name) == IF name \in DOMAIN b THEN b[name] ELSE -1

Emplace(b, name, i) == IF name \in DOMAIN b THEN b ELSE (name :> i) @@ b

(***************************************************************************)
(* Values of the environment.                                              *)
(***************************************************************************)
Limits(initial, max, has_max) == [initial |-> initial, max |-> max, has_max |-> has_max]

FuncSignature(params, results) == [param_types |-> params, result_types |-> results]

EmptySignature == FuncSignature(<<>>, <<>>)

TypedValue(type, value) == [type |-> type, value |-> value]

Global(typed_value, mutable_) == [typed_value |-> typed_value, mutable_ |-> mutable_]

DefaultGlobal == Global(TypedValue("void", 0), FALSE)

Table(limits) == [limits |-> limits, func_indexes |-> Fill(limits.initial, kInvalidIndex)]

\* A memory's data is its size and the bytes that differ from zero.
Memory(limits) ==
  [page_limits |-> limits, size |-> limits.initial * WABT_PAGE_SIZE, data |-> NoBindings]

EmptyMemory == [page_limits |-> Limits(0, 0, FALSE), size |-> 0, data |-> NoBindings]

HostFunc(module_name, field_name, sig_index) ==
  [is_host |-> TRUE, sig_index |-> sig_index, module_name |-> module_name,
   field_name |-> field_name, callback |-> FALSE]

DefinedFunc(sig_index) ==
  [is_host |-> FALSE, sig_index |-> sig_index, offset |-> kInvalidIstreamOffset,
   local_decl_count |-> 0, local_count |-> 0, param_and_local_types |-> <<>>]

Export(name, kind, index) == [name |-> name, kind |-> kind, index |-> index]

Import ==
  [module_name |-> "", field_name |-> "", kind |-> "func", sig_index |-> 0,
   limits |-> Limits(0, 0, FALSE), type |-> "void", mutable_ |-> FALSE]

HostModule(name, exports, bindings) ==
  [is_host |-> TRUE, name |-> name, exports |-> exports, export_bindings |-> bindings]

DefinedModule(istream_start) ==
  [is_host |-> FALSE, name |-> "", exports |-> <<>>, export_bindings |-> NoBindings,
   imports |-> <<>>, start_func_index |-> kInvalidIndex, table_index |-> kInvalidIndex,
   memory_index |-> kInvalidIndex, istream_start |-> istream_start,
   istream_end |-> istream_start]

(***************************************************************************)
(* The environment before the call: a host module "host" that already      *)
(* exports a function "hf" and a global "hg", and a module "m" translated  *)
(* earlier that exports a function, a table, a memory and two globals.     *)
(***************************************************************************)
Env0 ==
  [sigs |-> << FuncSignature(<<>>, <<>>), FuncSignature(<<"i32">>, <<"i32">>) >>,
   funcs |-> << [HostFunc("host", "hf", 0) EXCEPT !.callback = TRUE],
                [DefinedFunc(1) EXCEPT !.offset = 0, !.param_and_local_types = <<"i32">>] >>,
   tables |-> << [limits |-> Limits(2, 2, TRUE), func_indexes |-> <<1, kInvalidIndex>>] >>,
   memories |-> << [page_limits |-> Limits(1, 0, FALSE), size |-> WABT_PAGE_SIZE,
                    data |-> (0 :> 9)] >>,
   globals |-> << Global(TypedValue("i32", 5), FALSE),
                  Global(TypedValue("i32", 7), FALSE),
                  Global(TypedValue("i64", 3), TRUE) >>,
   modules |-> << HostModule("host",
                             << Export("hf", "func", 0), Export("hg", "global", 0) >>,
                             ("hf" :> 0) @@ ("hg" :> 1)),
                  [DefinedModule(0) EXCEPT
                     !.name = "m",
                     !.exports = << Export("f", "func", 1), Export("t", "table", 0),
                                    Export("mem", "memory", 0), Export("g", "global", 1),
                                    Export("mg", "global", 2) >>,
                     !.export_bindings = ("f" :> 0) @@ ("t" :> 1) @@ ("mem" :> 2)
                                           @@ ("g" :> 3) @@ ("mg" :> 4),
                     !.table_index = 0, !.memory_index = 0, !.istream_end = 1] >>,
   istream |-> << 15 >>]

\* The names under which modules are registered; the translator only reads it.
registered_module_bindings == ("host" :> 0) @@ ("m" :> 1)

(***************************************************************************)
(* read_binary_interpreter up to the call of read_binary: the mark, the    *)
(* new module, and the reader that takes the istream out of the            *)
(* environment.                                                            *)
(***************************************************************************)
mark_environment(e) ==
  [sigs_size |-> Len(e.sigs), funcs_size |-> Len(e.funcs), tables_size |-> Len(e.tables),
   memories_size |-> Len(e.memories), globals_size |-> Len(e.globals),
   modules_size |-> Len(e.modules), istream_size |-> Len(e.istream)]

reset_environment_to_mark(e, mark) ==
  [e EXCEPT !.sigs = EraseFrom(@, mark.sigs_size),
            !.funcs = EraseFrom(@, mark.funcs_size),
            !.tables = EraseFrom(@, mark.tables_size),
            !.memories = EraseFrom(@, mark.memories_size),
            !.globals = EraseFrom(@, mark.globals_size),
            !.modules = EraseFrom(@, mark.modules_size),
            !.istream = Resize(@, mark.istream_size, 0)]

Mark == mark_environment(Env0)

\* env->istream after std::move: the environment holds no buffer.
NullIstream == << >>

NewTypeChecker == [type_stack |-> <<>>, label_stack |-> <<>>, br_table_sig |-> "any"]

\* A constructor that leaves istream_offset at its default of 0.
BinaryReaderInterpreter_OffsetZero(e, module, istream_offset) ==
  [module |-> module, current_func |-> kInvalidIndex, typechecker |-> NewTypeChecker,
   label_stack |-> <<>>, func_fixups |-> <<>>, depth_fixups |-> <<>>,
   istream |-> e.istream, owns_istream |-> TRUE, istream_offset |-> 0,
   sig_index_mapping |-> <<>>, func_index_mapping |-> <<>>, global_index_mapping |-> <<>>,
   num_func_imports |-> 0, num_global_imports |-> 0,
   elem_segment_infos |-> <<>>, data_segment_infos |-> <<>>,
   init_expr_value |-> TypedValue("void", 0), table_offset |-> 0,
   is_host_import |-> FALSE, host_import_module |-> kInvalidIndex, import_env_index |-> 0]

\* init_expr_value is not initialized by the constructor; every read of it
\* follows a write (BeginGlobal or an OnInitExpr callback).
BinaryReaderInterpreter(e, module, istream_offset) ==
  [module |-> module, current_func |-> kInvalidIndex, typechecker |-> NewTypeChecker,
   label_stack |-> <<>>, func_fixups |-> <<>>, depth_fixups |-> <<>>,
   istream |-> e.istream, owns_istream |-> TRUE, istream_offset |-> istream_offset,
   sig_index_mapping |-> <<>>, func_index_mapping |-> <<>>, global_index_mapping |-> <<>>,
   num_func_imports |-> 0, num_global_imports |-> 0,
   elem_segment_infos |-> <<>>, data_segment_infos |-> <<>>,
   init_expr_value |-> TypedValue("void", 0), table_offset |-> 0,
   is_host_import |-> FALSE, host_import_module |-> kInvalidIndex, import_env_index |-> 0]

\* The translation state the callbacks work on: the environment, the reader,
\* the error handler's log and the result of the callback.
Start ==
  LET istream_offset == Len(Env0.istream)
      module == Len(Env0.modules)
  IN [env |-> [Env0 EXCEPT !.modules = Append(@, DefinedModule(istream_offset)),
                           !.istream = NullIstream],
      r |-> BinaryReaderInterpreter(Env0, module, istream_offset),
      errors |-> <<>>,
      res |-> "Ok"]

Ok(s) == [s EXCEPT !.res = "Ok"]

Error(s) == [s EXCEPT !.res = "Error"]

HandleError(s, message) == [s EXCEPT !.errors = Append(@, message)]

PrintError(s, message) == HandleError(s, message)

\* PrintError followed by return Error.
Fail(s, message) == Error(PrintError(s, message))

Module(s) == At(s.env.modules, s.r.module)

(***************************************************************************)
(* Index translation.                                                      *)
(***************************************************************************)
TranslateSigIndexToEnv(s, sig_index) == At(s.r.sig_index_mapping, sig_index)

GetSignatureByEnvIndex(s, sig_index) == At(s.env.sigs, sig_index)

GetSignatureByModuleIndex(s, sig_index) ==
  GetSignatureByEnvIndex(s, TranslateSigIndexToEnv(s, sig_index))

TranslateFuncIndexToEnv(s, func_index) == At(s.r.func_index_mapping, func_index)

TranslateModuleFuncIndexToDefined(s, func_index) == func_index - s.r.num_func_imports

GetFuncByEnvIndex(s, func_index) == At(s.env.funcs, func_index)

GetFuncByModuleIndex(s, func_index) ==
  GetFuncByEnvIndex(s, TranslateFuncIndexToEnv(s, func_index))

TranslateGlobalIndexToEnv(s, global_index) == At(s.r.global_index_mapping, global_index)

GetGlobalByEnvIndex(s, global_index) == At(s.env.globals, global_index)

GetGlobalByModuleIndex(s, global_index) ==
  GetGlobalByEnvIndex(s, TranslateGlobalIndexToEnv(s, global_index))

(***************************************************************************)
(* Types and imports.                                                      *)
(***************************************************************************)
\* The decoder's report of an error it found in the binary.
OnError(s, message) == HandleError(s, message)

OnTypeCount(s, count) ==
  Ok([s EXCEPT !.r.sig_index_mapping = [i \in 1..count |-> Len(s.env.sigs) + (i - 1)],
               !.env.sigs = Resize(@, Len(@) + count, EmptySignature)])

OnType(s, index, param_types, result_types) ==
  LET sig_index == TranslateSigIndexToEnv(s, index)
  IN Ok([s EXCEPT !.env.sigs[sig_index + 1].param_types = @ \o param_types,
                  !.env.sigs[sig_index + 1].result_types = @ \o result_types])

OnImportCount(s, count) ==
  Ok([s EXCEPT !.env.modules[s.r.module + 1].imports = Resize(@, count, Import)])

get_export_by_name(module, name) ==
  LET i == FindIndex(module.export_bindings, name)
  IN IF i < 0 THEN [found |-> FALSE] ELSE [found |-> TRUE, export |-> At(module.exports, i)]

OnImport(s, index, module_name, field_name) ==
  LET s1 == [s EXCEPT !.env.modules[s.r.module + 1].imports[index + 1].module_name = module_name,
                      !.env.modules[s.r.module + 1].imports[index + 1].field_name = field_name]
      module_index == FindIndex(registered_module_bindings, module_name)
  IN IF module_index < 0 THEN Fail(s1, "unknown import module")
     ELSE LET module == At(s1.env.modules, module_index)
          IN IF module.is_host
             THEN Ok([s1 EXCEPT !.r.is_host_import = TRUE,
                                !.r.host_import_module = module_index])
             ELSE LET e == get_export_by_name(module, field_name)
                  IN IF ~e.found THEN Fail(s1, "unknown module field")
                     ELSE Ok([s1 EXCEPT
                                !.env.modules[s.r.module + 1].imports[index + 1].kind = e.export.kind,
                                !.r.is_host_import = FALSE,
                                !.r.import_env_index = e.export.index])

CheckImportKind(s, import, expected_kind) ==
  IF import.kind # expected_kind THEN Fail(s, "expected import to have another kind") ELSE Ok(s)

\* CheckImportLimits comparing only the initial sizes.
CheckImportLimits_InitialOnly(s, declared_limits, actual_limits) ==
  IF actual_limits.initial < declared_limits.initial
  THEN Fail(s, "actual size smaller than declared")
  ELSE Ok(s)

CheckImportLimits(s, declared_limits, actual_limits) ==
  IF actual_limits.initial < declared_limits.initial
  THEN Fail(s, "actual size smaller than declared")
  ELSE IF declared_limits.has_max /\ ~actual_limits.has_max
  THEN Fail(s, "max size (unspecified) larger than declared")
  ELSE IF declared_limits.has_max /\ actual_limits.max > declared_limits.max
  THEN Fail(s, "max size larger than declared")
  ELSE Ok(s)

\* AppendExport without the look-up of the name.
AppendExport_Unchecked(s, module, kind, item_index, name) ==
  Ok([s EXCEPT !.env.modules[module + 1].exports = Append(@, Export(name, kind, item_index)),
               !.env.modules[module + 1].export_bindings =
                  Emplace(@, name, Len(s.env.modules[module + 1].exports))])

AppendExport(s, module, kind, item_index, name) ==
  IF FindIndex(At(s.env.modules, module).export_bindings, name) # -1
  THEN Fail(s, "duplicate export")
  ELSE Ok([s EXCEPT !.env.modules[module + 1].exports = Append(@, Export(name, kind, item_index)),
                    !.env.modules[module + 1].export_bindings =
                       Emplace(@, name, Len(s.env.modules[module + 1].exports))])

\* A call whose result the caller does not look at: its effects stay, and
\* the caller's own result is still Ok.
Ignored(s) == Ok(s)

func_signatures_are_equal(e, sig_index_0, sig_index_1) ==
  \/ sig_index_0 = sig_index_1
  \/ At(e.sigs, sig_index_0) = At(e.sigs, sig_index_1)

\* The host delegate's import_* callbacks: d.ok is the result, and a delegate
\* that fails has reported through the print-error callback.
HostDelegateResult(s, d) == IF d.ok THEN Ok(s) ELSE Fail(s, "host import failed")

OnImportFunc(s, import_index, sig_index, d) ==
  LET env_sig == TranslateSigIndexToEnv(s, sig_index)
      s1 == [s EXCEPT !.env.modules[s.r.module + 1].imports[import_index + 1].sig_index = env_sig]
      import == At(Module(s1).imports, import_index)
  IN IF s1.r.is_host_import
     THEN LET func == HostFunc(import.module_name, import.field_name, env_sig)
              s2 == [s1 EXCEPT !.env.funcs = Append(@, func)]
              s3 == HostDelegateResult(
                      [s2 EXCEPT !.env.funcs[Len(s2.env.funcs)].callback = d.ok], d)
          IN IF s3.res = "Error" THEN s3
             ELSE LET func_env_index == Len(s3.env.funcs) - 1
                      s4 == Ignored(AppendExport(s3, s3.r.host_import_module, "func",
                                                 func_env_index, import.field_name))
                  IN Ok([s4 EXCEPT !.r.func_index_mapping = Append(@, func_env_index),
                                   !.r.num_func_imports = @ + 1])
     ELSE LET s2 == CheckImportKind(s1, import, "func")
          IN IF s2.res = "Error" THEN s2
             ELSE LET func == At(s2.env.funcs, s2.r.import_env_index)
                  IN IF ~func_signatures_are_equal(s2.env, env_sig, func.sig_index)
                     THEN Fail(s2, "import signature mismatch")
                     ELSE Ok([s2 EXCEPT !.r.func_index_mapping = Append(@, s2.r.import_env_index),
                                        !.r.num_func_imports = @ + 1])

OnImportTable(s, import_index, elem_limits, d) ==
  IF Module(s).table_index # kInvalidIndex THEN Fail(s, "only one table allowed")
  ELSE
  LET import == At(Module(s).imports, import_index)
  IN IF s.r.is_host_import
     THEN LET s1 == [s EXCEPT !.env.tables = Append(@, Table(elem_limits))]
              \* the delegate populates the table
              s2 == HostDelegateResult(
                      [s1 EXCEPT !.env.tables[Len(s1.env.tables)] = Table(d.limits)], d)
          IN IF s2.res = "Error" THEN s2
             ELSE LET table == s2.env.tables[Len(s2.env.tables)]
                      s3 == CheckImportLimits(s2, elem_limits, table.limits)
                  IN IF s3.res = "Error" THEN s3
                     ELSE LET table_index == Len(s3.env.tables) - 1
                              s4 == [s3 EXCEPT !.env.modules[s.r.module + 1].table_index = table_index]
                          IN Ok(Ignored(AppendExport(s4, s4.r.host_import_module, "table",
                                                     table_index, import.field_name)))
     ELSE LET s1 == CheckImportKind(s, import, "table")
          IN IF s1.res = "Error" THEN s1
             ELSE LET table == At(s1.env.tables, s1.r.import_env_index)
                      s2 == CheckImportLimits(s1, elem_limits, table.limits)
                  IN IF s2.res = "Error" THEN s2
                     ELSE Ok([s2 EXCEPT
                                !.env.modules[s.r.module + 1].imports[import_index + 1].limits = elem_limits,
                                !.env.modules[s.r.module + 1].table_index = s2.r.import_env_index])

OnImportMemory(s, import_index, page_limits, d) ==
  IF Module(s).memory_index # kInvalidIndex THEN Fail(s, "only one memory allowed")
  ELSE
  LET import == At(Module(s).imports, import_index)
  IN IF s.r.is_host_import
     THEN LET s1 == [s EXCEPT !.env.memories = Append(@, EmptyMemory)]
              \* the delegate populates the memory
              s2 == HostDelegateResult(
                      [s1 EXCEPT !.env.memories[Len(s1.env.memories)] = Memory(d.limits)], d)
          IN IF s2.res = "Error" THEN s2
             ELSE LET memory == s2.env.memories[Len(s2.env.memories)]
                      s3 == CheckImportLimits(s2, page_limits, memory.page_limits)
                  IN IF s3.res = "Error" THEN s3
                     ELSE LET memory_index == Len(s3.env.memories) - 1
                              s4 == [s3 EXCEPT !.env.modules[s.r.module + 1].memory_index = memory_index]
                          IN Ok(Ignored(AppendExport(s4, s4.r.host_import_module, "memory",
                                                     memory_index, import.field_name)))
     ELSE LET s1 == CheckImportKind(s, import, "memory")
          IN IF s1.res = "Error" THEN s1
             ELSE LET memory == At(s1.env.memories, s1.r.import_env_index)
                      s2 == CheckImportLimits(s1, page_limits, memory.page_limits)
                  IN IF s2.res = "Error" THEN s2
                     ELSE Ok([s2 EXCEPT
                                !.env.modules[s.r.module + 1].imports[import_index + 1].limits = page_limits,
                                !.env.modules[s.r.module + 1].memory_index = s2.r.import_env_index])

OnImportGlobal(s, import_index, type, mutable_, d) ==
  LET import == At(Module(s).imports, import_index)
  IN IF s.r.is_host_import
     THEN LET s1 == [s EXCEPT !.env.globals = Append(@, Global(TypedValue(type, 0), mutable_))]
              \* the delegate sets the global's value
              s2 == HostDelegateResult(
                      [s1 EXCEPT !.env.globals[Len(s1.env.globals)].typed_value.value = d.value], d)
          IN IF s2.res = "Error" THEN s2
             ELSE LET global_env_index == Len(s2.env.globals) - 1
                      s3 == Ignored(AppendExport(s2, s2.r.host_import_module, "global",
                                                 global_env_index, import.field_name))
                  IN Ok([s3 EXCEPT !.r.global_index_mapping = Append(@, global_env_index),
                                   !.r.num_global_imports = @ + 1])
     ELSE LET s1 == CheckImportKind(s, import, "global")
          IN IF s1.res = "Error" THEN s1
             ELSE Ok([s1 EXCEPT
                        !.env.modules[s.r.module + 1].imports[import_index + 1].type = type,
                        !.env.modules[s.r.module + 1].imports[import_index + 1].mutable_ = mutable_,
                        !.r.global_index_mapping = Append(@, s1.r.import_env_index),
                        !.r.num_global_imports = @ + 1])

(***************************************************************************)
(* Functions, table, memory, globals.                                      *)
(***************************************************************************)
OnFunctionCount(s, count) ==
  Ok([s EXCEPT !.r.func_index_mapping = @ \o [i \in 1..count |-> Len(s.env.funcs) + (i - 1)],
               !.r.func_fixups = Resize(@, count, <<>>)])

OnFunction(s, index, sig_index) ==
  Ok([s EXCEPT !.env.funcs = Append(@, DefinedFunc(TranslateSigIndexToEnv(s, sig_index)))])

\* OnTable without the check for a table that already exists.
OnTable_Unchecked(s, index, elem_limits) ==
  Ok([s EXCEPT !.env.tables = Append(@, Table(elem_limits)),
               !.env.modules[s.r.module + 1].table_index = Len(s.env.tables)])

OnTable(s, index, elem_limits) ==
  IF Module(s).table_index # kInvalidIndex THEN Fail(s, "only one table allowed")
  ELSE Ok([s EXCEPT !.env.tables = Append(@, Table(elem_limits)),
                    !.env.modules[s.r.module + 1].table_index = Len(s.env.tables)])

OnMemory(s, index, page_limits) ==
  IF Module(s).memory_index # kInvalidIndex THEN Fail(s, "only one memory allowed")
  ELSE Ok([s EXCEPT !.env.memories = Append(@, Memory(page_limits)),
                    !.env.modules[s.r.module + 1].memory_index = Len(s.env.memories)])

\* OnGlobalCount mapping every new global to the first new slot.
OnGlobalCount_SameSlot(s, count) ==
  Ok([s EXCEPT !.r.global_index_mapping = @ \o [i \in 1..count |-> Len(s.env.globals)],
               !.env.globals = Resize(@, Len(@) + count, DefaultGlobal)])

OnGlobalCount(s, count) ==
  Ok([s EXCEPT !.r.global_index_mapping = @ \o [i \in 1..count |-> Len(s.env.globals) + (i - 1)],
               !.env.globals = Resize(@, Len(@) + count, DefaultGlobal)])

BeginGlobal(s, index, type, mutable_) ==
  LET g == TranslateGlobalIndexToEnv(s, index)
  IN Ok([s EXCEPT !.env.globals[g + 1].typed_value.type = type,
                  !.env.globals[g + 1].mutable_ = mutable_,
                  !.r.init_expr_value.type = "void"])

\* EndGlobalInitExpr storing the value whatever its type.
EndGlobalInitExpr_Unchecked(s, index) ==
  LET g == TranslateGlobalIndexToEnv(s, index)
  IN Ok([s EXCEPT !.env.globals[g + 1].typed_value = s.r.init_expr_value])

EndGlobalInitExpr(s, index) ==
  LET g == TranslateGlobalIndexToEnv(s, index)
  IN IF s.r.init_expr_value.type # At(s.env.globals, g).typed_value.type
     THEN Fail(s, "type mismatch in global")
     ELSE Ok([s EXCEPT !.env.globals[g + 1].typed_value = s.r.init_expr_value])

OnInitExprConstExpr(s, type, value) ==
  Ok([s EXCEPT !.r.init_expr_value = TypedValue(type, value)])

\* OnInitExprGetGlobalExpr without the test of the global's mutability.
OnInitExprGetGlobalExpr_AnyImport(s, index, global_index) ==
  IF global_index >= s.r.num_global_imports
  THEN Fail(s, "initializer expression can only reference an imported global")
  ELSE Ok([s EXCEPT !.r.init_expr_value = GetGlobalByModuleIndex(s, global_index).typed_value])

OnInitExprGetGlobalExpr(s, index, global_index) ==
  IF global_index >= s.r.num_global_imports
  THEN Fail(s, "initializer expression can only reference an imported global")
  ELSE LET ref_global == GetGlobalByModuleIndex(s, global_index)
       IN IF ref_global.mutable_
          THEN Fail(s, "initializer expression cannot reference a mutable global")
          ELSE Ok([s EXCEPT !.r.init_expr_value = ref_global.typed_value])

(***************************************************************************)
(* Exports and the start function.                                         *)
(***************************************************************************)
\* OnExport without the test of the global's mutability.
OnExport_AnyGlobal(s, index, kind, item_index, name) ==
  LET env_index == CASE kind = "func" -> TranslateFuncIndexToEnv(s, item_index)
                     [] kind = "table" -> Module(s).table_index
                     [] kind = "memory" -> Module(s).memory_index
                     [] kind = "global" -> TranslateGlobalIndexToEnv(s, item_index)
  IN AppendExport(s, s.r.module, kind, env_index, name)

OnExport(s, index, kind, item_index, name) ==
  LET env_index == CASE kind = "func" -> TranslateFuncIndexToEnv(s, item_index)
                     [] kind = "table" -> Module(s).table_index
                     [] kind = "memory" -> Module(s).memory_index
                     [] kind = "global" -> TranslateGlobalIndexToEnv(s, item_index)
  IN IF kind = "global" /\ At(s.env.globals, env_index).mutable_
     THEN Fail(s, "mutable globals cannot be exported")
     ELSE AppendExport(s, s.r.module, kind, env_index, name)

OnStartFunction(s, func_index) ==
  LET start_func_index == TranslateFuncIndexToEnv(s, func_index)
      start_func == GetFuncByEnvIndex(s, start_func_index)
      sig == GetSignatureByEnvIndex(s, start_func.sig_index)
  IN IF Len(sig.param_types) # 0 THEN Fail(s, "start function must be nullary")
     ELSE IF Len(sig.result_types) # 0 THEN Fail(s, "start function must not return anything")
     ELSE Ok([s EXCEPT !.env.modules[s.r.module + 1].start_func_index = start_func_index])

(***************************************************************************)
(* Element and data segments; the commit in EndModule.                     *)
(***************************************************************************)
EndElemSegmentInitExpr(s, index) ==
  IF s.r.init_expr_value.type # "i32" THEN Fail(s, "type mismatch in elem segment")
  ELSE Ok([s EXCEPT !.r.table_offset = s.r.init_expr_value.value])

\* info.dst points at slot `slot` of table `table`.
ElemSegmentInfo(table, slot, func_index) ==
  [table |-> table, slot |-> slot, func_index |-> func_index]

\* OnElemSegmentFunctionIndex storing into the table at once.
OnElemSegmentFunctionIndex_Eager(s, index, func_index) ==
  LET table_index == Module(s).table_index
      table == At(s.env.tables, table_index)
      table_offset == s.r.table_offset
  IN IF table_offset < 0 \/ table_offset >= Len(table.func_indexes)
     THEN Fail(s, "elem segment offset is out of bounds")
     ELSE IF func_index >= Len(s.r.func_index_mapping) THEN Fail(s, "invalid func_index")
     ELSE Ok([s EXCEPT !.env.tables[table_index + 1].func_indexes[table_offset + 1] =
                          TranslateFuncIndexToEnv(s, func_index),
                       !.r.table_offset = table_offset + 1])

\* OnElemSegmentFunctionIndex comparing the offset with > instead of >=.
OnElemSegmentFunctionIndex_OffByOne(s, index, func_index) ==
  LET table_index == Module(s).table_index
      table == At(s.env.tables, table_index)
      table_offset == s.r.table_offset
  IN IF table_offset < 0 \/ table_offset > Len(table.func_indexes)
     THEN Fail(s, "elem segment offset is out of bounds")
     ELSE IF func_index >= Len(s.r.func_index_mapping) THEN Fail(s, "invalid func_index")
     ELSE Ok([s EXCEPT !.r.elem_segment_infos =
                          Append(@, ElemSegmentInfo(table_index, table_offset,
                                                    TranslateFuncIndexToEnv(s, func_index))),
                       !.r.table_offset = table_offset + 1])

OnElemSegmentFunctionIndex(s, index, func_index) ==
  LET table_index == Module(s).table_index
      table == At(s.env.tables, table_index)
      table_offset == s.r.table_offset
  IN \* table_offset is unsigned: a pattern below 0 is above every size
     IF table_offset < 0 \/ table_offset >= Len(table.func_indexes)
     THEN Fail(s, "elem segment offset is out of bounds")
     ELSE IF func_index >= Len(s.r.func_index_mapping) THEN Fail(s, "invalid func_index")
     ELSE Ok([s EXCEPT !.r.elem_segment_infos =
                          Append(@, ElemSegmentInfo(table_index, table_offset,
                                                    TranslateFuncIndexToEnv(s, func_index))),
                       !.r.table_offset = table_offset + 1])

\* 64-bit unsigned arithmetic on 32-bit patterns, in 16-bit digits.
Lo16(v) == v % 65536

Hi16(v) == (v \div 65536) % 65536

\* uint64(a) + uint64(b): hi holds bits 16 and up, carry into bit 32 included.
Add64(a, b) ==
  LET lo == Lo16(a) + Lo16(b)
  IN [hi |-> Hi16(a) + Hi16(b) + (lo \div 65536), lo |-> lo % 65536]

\* x > n for a 64-bit x and a size n.
Greater64(x, n) == x.hi > n \div 65536 \/ (x.hi = n \div 65536 /\ x.lo > n % 65536)

\* info.dst_data points at byte `address` of memory `memory`.
DataSegmentInfo(memory, address, src_data, size) ==
  [memory |-> memory, address |-> address, src_data |-> src_data, size |-> size]

\* The end address computed in 32 bits.
EndAddress_Wrap32(address, size) ==
  LET x == Add64(address, size) IN [hi |-> x.hi % 65536, lo |-> x.lo]

EndAddress(address, size) == Add64(address, size)

OnDataSegmentData(s, index, src_data, size) ==
  LET memory_index == Module(s).memory_index
      memory == At(s.env.memories, memory_index)
  IN IF s.r.init_expr_value.type # "i32" THEN Fail(s, "type mismatch in data segment")
     ELSE LET address == s.r.init_expr_value.value
              end_address == EndAddress(address, size)
          IN IF Greater64(end_address, memory.size)
             THEN Fail(s, "data segment is out of bounds")
             ELSE IF size > 0
             THEN Ok([s EXCEPT !.r.data_segment_infos =
                                  Append(@, DataSegmentInfo(memory_index, address, src_data, size))])
             ELSE Ok(s)

\* memcpy into a memory's data.
Memcpy(data, address, src_data, size) ==
  LET written == {address + k : k \in 0..(size - 1)}
      byte(a) == IF a \in written THEN src_data[a - address + 1] ELSE data[a]
      dom == {a \in DOMAIN data \cup written : byte(a) # 0}
  IN [a \in dom |-> byte(a)]

RECURSIVE ApplyElemSegments(_, _)
ApplyElemSegments(tables, infos) ==
  IF infos = <<>> THEN tables
  ELSE LET info == Head(infos)
       IN ApplyElemSegments(
            [tables EXCEPT ![info.table + 1].func_indexes[info.slot + 1] = info.func_index],
            Tail(infos))

RECURSIVE ApplyDataSegments(_, _)
ApplyDataSegments(memories, infos) ==
  IF infos = <<>> THEN memories
  ELSE LET info == Head(infos)
       IN ApplyDataSegments(
            [memories EXCEPT ![info.memory + 1].data =
                                Memcpy(@, info.address, info.src_data, info.size)],
            Tail(infos))

\* EndModule applying the recorded element writes last to first.
EndModule_ElemsReversed(s) ==
  LET infos == s.r.elem_segment_infos
      reversed == [k \in 1..Len(infos) |-> infos[Len(infos) + 1 - k]]
  IN Ok([s EXCEPT !.env.tables = ApplyElemSegments(@, reversed),
                  !.env.memories = ApplyDataSegments(@, s.r.data_segment_infos)])

EndModule(s) ==
  Ok([s EXCEPT !.env.tables = ApplyElemSegments(@, s.r.elem_segment_infos),
               !.env.memories = ApplyDataSegments(@, s.r.data_segment_infos)])

(***************************************************************************)
(* The type checker the reader drives (type-checker.cc).  An operation     *)
(* yields the checker after it and whether it reported no error.           *)
(***************************************************************************)
TypeCheckerLabel(label_type, sig, type_stack_limit) ==
  [label_type |-> label_type, sig |-> sig, type_stack_limit |-> type_stack_limit,
   unreachable |-> FALSE]

TcResult(tc, ok) == [tc |-> tc, ok |-> ok]

\* depth is unsigned: a pattern below 0 is above every size.
HasLabel(tc, depth) == depth >= 0 /\ depth < Len(tc.label_stack)

TcLabel(tc, depth) == tc.label_stack[Len(tc.label_stack) - depth]

typechecker_is_unreachable(tc) == ~HasLabel(tc, 0) \/ TcLabel(tc, 0).unreachable

reset_type_stack_to_label(tc, label) ==
  [tc EXCEPT !.type_stack = Resize(@, label.type_stack_limit, "any")]

set_unreachable(tc) ==
  IF ~HasLabel(tc, 0) THEN TcResult(tc, FALSE)
  ELSE LET n == Len(tc.label_stack)
       IN TcResult(reset_type_stack_to_label([tc EXCEPT !.label_stack[n].unreachable = TRUE],
                                             tc.label_stack[n]), TRUE)

push_label(tc, label_type, sig) ==
  [tc EXCEPT !.label_stack = Append(@, TypeCheckerLabel(label_type, sig, Len(tc.type_stack)))]

pop_label(tc) == [tc EXCEPT !.label_stack = SubSeq(@, 1, Len(@) - 1)]

peek_type(tc, depth) ==
  IF ~HasLabel(tc, 0) THEN [ok |-> FALSE, type |-> "any"]
  ELSE LET label == TcLabel(tc, 0)
       IN IF label.type_stack_limit + depth >= Len(tc.type_stack)
          THEN [ok |-> label.unreachable, type |-> "any"]
          ELSE [ok |-> TRUE, type |-> tc.type_stack[Len(tc.type_stack) - depth]]

pop_type(tc) ==
  IF ~HasLabel(tc, 0) THEN [ok |-> FALSE, type |-> "any", tc |-> tc]
  ELSE LET top == peek_type(tc, 0)
       IN [ok |-> top.ok, type |-> top.type,
           tc |-> IF Len(tc.type_stack) > TcLabel(tc, 0).type_stack_limit
                  THEN [tc EXCEPT !.type_stack = SubSeq(@, 1, Len(@) - 1)]
                  ELSE tc]

drop_types(tc, drop_count) ==
  IF ~HasLabel(tc, 0) THEN TcResult(tc, FALSE)
  ELSE LET label == TcLabel(tc, 0)
       IN IF label.type_stack_limit + drop_count > Len(tc.type_stack)
          THEN IF label.unreachable THEN TcResult(reset_type_stack_to_label(tc, label), TRUE)
               ELSE TcResult(tc, FALSE)
          ELSE TcResult([tc EXCEPT !.type_stack = SubSeq(@, 1, Len(@) - drop_count)], TRUE)

push_type(tc, type) ==
  IF type = "void" THEN tc ELSE [tc EXCEPT !.type_stack = Append(@, type)]

push_types(tc, types) == [tc EXCEPT !.type_stack = @ \o types]

check_type_stack_limit(tc, expected) ==
  /\ HasLabel(tc, 0)
  /\ TcLabel(tc, 0).unreachable
       \/ expected <= Len(tc.type_stack) - TcLabel(tc, 0).type_stack_limit

check_type_stack_end(tc) ==
  HasLabel(tc, 0) /\ Len(tc.type_stack) = TcLabel(tc, 0).type_stack_limit

check_type(actual, expected) == expected = actual \/ expected = "any" \/ actual = "any"

check_signature(tc, sig) ==
  /\ check_type_stack_limit(tc, Len(sig))
  /\ \A i \in 1..Len(sig) :
       LET top == peek_type(tc, Len(sig) - i) IN top.ok /\ check_type(top.type, sig[i])

pop_and_check_signature(tc, sig) ==
  LET dropped == drop_types(tc, Len(sig))
  IN TcResult(dropped.tc, check_signature(tc, sig) /\ dropped.ok)

pop_and_check_call(tc, param_types, result_types) == pop_and_check_signature(tc, param_types)

pop_and_check_1_type(tc, expected) ==
  LET popped == pop_type(tc)
  IN TcResult(popped.tc,
              check_type_stack_limit(tc, 1) /\ popped.ok /\ check_type(popped.type, expected))

pop_and_check_2_types(tc, expected1, expected2) ==
  LET popped2 == pop_type(tc)
      popped1 == pop_type(popped2.tc)
  IN TcResult(popped1.tc,
              /\ check_type_stack_limit(tc, 2) /\ popped2.ok /\ popped1.ok
              /\ check_type(popped1.type, expected1) /\ check_type(popped2.type, expected2))

pop_and_check_2_types_are_equal(tc) ==
  LET right == pop_type(tc)
      left == pop_type(right.tc)
  IN [tc |-> left.tc, type |-> right.type,
      ok |-> /\ check_type_stack_limit(tc, 2) /\ right.ok /\ left.ok
             /\ check_type(left.type, right.type)]

check_opcode1(tc, param1, result) ==
  LET popped == pop_and_check_1_type(tc, param1)
  IN TcResult(push_type(popped.tc, result), popped.ok)

check_opcode2(tc, param1, param2, result) ==
  LET popped == pop_and_check_2_types(tc, param1, param2)
  IN TcResult(push_type(popped.tc, result), popped.ok)

typechecker_begin_function(tc, sig) ==
  TcResult(push_label([tc EXCEPT !.type_stack = <<>>, !.label_stack = <<>>], "Func", sig), TRUE)

typechecker_on_block(tc, sig) == TcResult(push_label(tc, "Block", sig), TRUE)

typechecker_on_loop(tc, sig) == TcResult(push_label(tc, "Loop", sig), TRUE)

typechecker_on_if(tc, sig) ==
  LET popped == pop_and_check_1_type(tc, "i32")
  IN TcResult(push_label(popped.tc, "If", sig), popped.ok)

typechecker_on_else(tc) ==
  IF ~HasLabel(tc, 0) THEN TcResult(tc, FALSE)
  ELSE LET label == TcLabel(tc, 0)
           popped == pop_and_check_signature(tc, label.sig)
           n == Len(tc.label_stack)
           reset == reset_type_stack_to_label(popped.tc, label)
       IN TcResult([reset EXCEPT !.label_stack[n].label_type = "Else",
                                 !.label_stack[n].unreachable = FALSE],
                   label.label_type = "If" /\ popped.ok /\ check_type_stack_end(popped.tc))

\* on_end: the end of the construct the label stands for.
on_end(tc, label) ==
  LET popped == pop_and_check_signature(tc, label.sig)
  IN TcResult(pop_label(push_types(reset_type_stack_to_label(popped.tc, label), label.sig)),
              popped.ok /\ check_type_stack_end(popped.tc))

typechecker_on_end(tc) ==
  IF ~HasLabel(tc, 0) THEN TcResult(tc, FALSE)
  ELSE LET label == TcLabel(tc, 0)
           ended == on_end(tc, label)
       IN TcResult(ended.tc, ~(label.label_type = "If" /\ Len(label.sig) # 0) /\ ended.ok)

typechecker_end_function(tc) ==
  IF ~HasLabel(tc, 0) THEN TcResult(tc, FALSE)
  ELSE LET label == TcLabel(tc, 0)
           ended == on_end(tc, label)
       IN TcResult(ended.tc, label.label_type = "Func" /\ ended.ok)

typechecker_on_br(tc, depth) ==
  IF ~HasLabel(tc, depth) THEN TcResult(tc, FALSE)
  ELSE LET label == TcLabel(tc, depth)
           unreachable == set_unreachable(tc)
       IN TcResult(unreachable.tc,
                   (label.label_type # "Loop" => check_signature(tc, label.sig)) /\ unreachable.ok)

typechecker_on_br_if(tc, depth) ==
  LET cond == pop_and_check_1_type(tc, "i32")
  IN IF ~HasLabel(cond.tc, depth) THEN TcResult(cond.tc, FALSE)
     ELSE LET label == TcLabel(cond.tc, depth)
          IN IF label.label_type # "Loop"
             THEN LET popped == pop_and_check_signature(cond.tc, label.sig)
                  IN TcResult(push_types(popped.tc, label.sig), cond.ok /\ popped.ok)
             ELSE cond

typechecker_begin_br_table(tc) ==
  pop_and_check_1_type([tc EXCEPT !.br_table_sig = "any"], "i32")

typechecker_on_br_table_target(tc, depth) ==
  IF ~HasLabel(tc, depth) THEN TcResult(tc, FALSE)
  ELSE LET label == TcLabel(tc, depth)
           label_sig == IF label.label_type = "Loop" \/ Len(label.sig) = 0 THEN "void"
                        ELSE label.sig[1]
       IN TcResult([tc EXCEPT !.br_table_sig = label_sig],
                   /\ check_type(tc.br_table_sig, label_sig)
                   /\ label.label_type # "Loop" => check_signature(tc, label.sig))

typechecker_end_br_table(tc) == set_unreachable(tc)

typechecker_on_call(tc, param_types, result_types) ==
  LET popped == pop_and_check_call(tc, param_types, result_types)
  IN TcResult(push_types(popped.tc, result_types), popped.ok)

typechecker_on_call_indirect(tc, param_types, result_types) ==
  LET index == pop_and_check_1_type(tc, "i32")
      popped == pop_and_check_call(index.tc, param_types, result_types)
  IN TcResult(push_types(popped.tc, result_types), index.ok /\ popped.ok)

typechecker_on_const(tc, type) == TcResult(push_type(tc, type), TRUE)

typechecker_on_current_memory(tc) == TcResult(push_type(tc, "i32"), TRUE)

typechecker_on_grow_memory(tc) == check_opcode1(tc, "i32", "i32")

typechecker_on_drop(tc) == drop_types(tc, 1)

typechecker_on_get_local(tc, type) == TcResult(push_type(tc, type), TRUE)

typechecker_on_set_local(tc, type) == pop_and_check_1_type(tc, type)

typechecker_on_tee_local(tc, type) ==
  LET popped == pop_and_check_1_type(tc, type)
  IN TcResult(push_type(popped.tc, type), popped.ok)

typechecker_on_get_global(tc, type) == TcResult(push_type(tc, type), TRUE)

typechecker_on_set_global(tc, type) == pop_and_check_1_type(tc, type)

typechecker_on_return(tc) ==
  IF ~HasLabel(tc, Len(tc.label_stack) - 1) THEN TcResult(tc, FALSE)
  ELSE LET func_label == TcLabel(tc, Len(tc.label_stack) - 1)
           popped == pop_and_check_signature(tc, func_label.sig)
           unreachable == set_unreachable(popped.tc)
       IN TcResult(unreachable.tc, popped.ok /\ unreachable.ok)

typechecker_on_select(tc) ==
  LET cond == pop_and_check_1_type(tc, "i32")
      popped == pop_and_check_2_types_are_equal(cond.tc)
  IN TcResult(push_type(popped.tc, popped.type), cond.ok /\ popped.ok)

typechecker_on_unreachable(tc) == set_unreachable(tc)

(***************************************************************************)
(* The istream: opcodes of one byte, immediates little-endian.             *)
(***************************************************************************)
\* interpreter::Opcode: the WebAssembly opcodes and the interpreter's own.
Opcode ==
  [Unreachable |-> 0, Br |-> 12, BrTable |-> 14, Return |-> 15, Call |-> 16,
   CallIndirect |-> 17, Drop |-> 26, Select |-> 27, GetLocal |-> 32, SetLocal |-> 33,
   TeeLocal |-> 34, GetGlobal |-> 35, SetGlobal |-> 36,
   I32Load |-> 40, I64Load |-> 41, I32Load8S |-> 44, I32Load16S |-> 46, I64Load32U |-> 53,
   I32Store |-> 54, I64Store |-> 55, I32Store8 |-> 58, I32Store16 |-> 59,
   CurrentMemory |-> 63, GrowMemory |-> 64, I32Const |-> 65, I64Const |-> 66,
   I32Eqz |-> 69, I32Add |-> 106,
   Alloca |-> 192, BrUnless |-> 193, CallHost |-> 194, Data |-> 195, DropKeep |-> 196]

\* The operand and result types of the typed opcodes, and the bytes a
\* memory access touches.
OpcodeInfo ==
  [I32Load |-> [param1 |-> "i32", param2 |-> "void", result |-> "i32", memory_size |-> 4],
   I64Load |-> [param1 |-> "i32", param2 |-> "void", result |-> "i64", memory_size |-> 8],
   I32Load8S |-> [param1 |-> "i32", param2 |-> "void", result |-> "i32", memory_size |-> 1],
   I32Load16S |-> [param1 |-> "i32", param2 |-> "void", result |-> "i32", memory_size |-> 2],
   I64Load32U |-> [param1 |-> "i32", param2 |-> "void", result |-> "i64", memory_size |-> 4],
   I32Store |-> [param1 |-> "i32", param2 |-> "i32", result |-> "void", memory_size |-> 4],
   I64Store |-> [param1 |-> "i32", param2 |-> "i64", result |-> "void", memory_size |-> 8],
   I32Store8 |-> [param1 |-> "i32", param2 |-> "i32", result |-> "void", memory_size |-> 1],
   I32Store16 |-> [param1 |-> "i32", param2 |-> "i32", result |-> "void", memory_size |-> 2],
   I32Eqz |-> [param1 |-> "i32", param2 |-> "void", result |-> "i32", memory_size |-> 0],
   I32Add |-> [param1 |-> "i32", param2 |-> "i32", result |-> "i32", memory_size |-> 0]]

get_opcode_memory_size(opcode) == OpcodeInfo[opcode].memory_size

WABT_TABLE_ENTRY_SIZE == 9

\* The four bytes of a 32-bit pattern, and the pattern of four bytes.
I32Bytes(value) ==
  << value % 256, (value \div 256) % 256, (value \div 65536) % 256,
     (value \div 16777216) % 256 >>

ReadI32(data, offset) ==
  LET b(k) == data[offset + k]
  IN b(1) + 256 * b(2) + 65536 * b(3) + 16777216 * (IF b(4) >= 128 THEN b(4) - 256 ELSE b(4))

\* A small value as a 64-bit pattern.
I64Bytes(value) == I32Bytes(value) \o I32Bytes(IF value < 0 THEN -1 ELSE 0)

\* MemoryWriter::WriteData: the buffer grows to hold the bytes written.
WriteData(data, offset, bytes) ==
  LET end == offset + Len(bytes)
      size == IF end > Len(data) THEN end ELSE Len(data)
  IN [i \in 1..size |-> IF i > offset /\ i <= end THEN bytes[i - offset]
                        ELSE IF i <= Len(data) THEN data[i] ELSE 0]

GetIstreamOffset(s) == s.r.istream_offset

EmitDataAt(s, offset, data) == [s EXCEPT !.r.istream = WriteData(@, offset, data)]

EmitData(s, data) ==
  [EmitDataAt(s, s.r.istream_offset, data) EXCEPT !.r.istream_offset = @ + Len(data)]

EmitOpcode(s, opcode) == EmitData(s, << Opcode[opcode] >>)

EmitI8(s, value) == EmitData(s, << value % 256 >>)

EmitI32(s, value) == EmitData(s, I32Bytes(value))

EmitI64(s, value) == EmitData(s, I64Bytes(value))

\* EmitI32At writing at the write cursor instead of the recorded offset.
EmitI32At_AtCursor(s, offset, value) == EmitDataAt(s, s.r.istream_offset, I32Bytes(value))

EmitI32At(s, offset, value) == EmitDataAt(s, offset, I32Bytes(value))

\* EmitI32At at each of the offsets in turn.
RECURSIVE EmitI32AtEach(_, _, _)
EmitI32AtEach(s, fixups, value) ==
  IF fixups = <<>> THEN s
  ELSE EmitI32AtEach(EmitI32At(s, Head(fixups), value), Tail(fixups), value)

\* EmitDropKeep emitting Drop for every drop of one value.
EmitDropKeep_DropIgnoresKeep(s, drop, keep) ==
  IF drop # 0
  THEN IF drop = 1 THEN EmitOpcode(s, "Drop")
       ELSE EmitI8(EmitI32(EmitOpcode(s, "DropKeep"), drop), keep)
  ELSE s

EmitDropKeep(s, drop, keep) ==
  IF drop # 0
  THEN IF drop = 1 /\ keep = 0 THEN EmitOpcode(s, "Drop")
       ELSE EmitI8(EmitI32(EmitOpcode(s, "DropKeep"), drop), keep)
  ELSE s

(***************************************************************************)
(* Labels and fixups.                                                      *)
(***************************************************************************)
Label(offset, fixup_offset) == [offset |-> offset, fixup_offset |-> fixup_offset]

GetLabel(s, depth) == s.r.label_stack[Len(s.r.label_stack) - depth]

TopLabel(s) == GetLabel(s, 0)

\* The fixups vector with the offset appended to the list at index.
AppendFixup(fixups_vector, index, offset) ==
  LET resized == IF index >= Len(fixups_vector) THEN Resize(fixups_vector, index + 1, <<>>)
                 ELSE fixups_vector
  IN [resized EXCEPT ![index + 1] = Append(@, offset)]

\* EmitBrOffset recording the fixup under the depth counted from the top.
EmitBrOffset_DepthFromTop(s, depth, offset) ==
  LET s1 == IF offset = kInvalidIstreamOffset
            THEN [s EXCEPT !.r.depth_fixups = AppendFixup(@, depth, GetIstreamOffset(s))]
            ELSE s
  IN EmitI32(s1, offset)

EmitBrOffset(s, depth, offset) ==
  LET s1 == IF offset = kInvalidIstreamOffset
            THEN [s EXCEPT !.r.depth_fixups =
                              AppendFixup(@, Len(s.r.label_stack) - 1 - depth,
                                          GetIstreamOffset(s))]
            ELSE s
  IN EmitI32(s1, offset)

\* GetBrDropKeepCount keeping the results of a loop label as well.
GetBrDropKeepCount_LoopKeepsResults(s, depth) ==
  LET tc == s.r.typechecker
  IN IF ~HasLabel(tc, depth) THEN [ok |-> FALSE, drop |-> 0, keep |-> 0]
     ELSE LET label == TcLabel(tc, depth)
              keep == Len(label.sig)
          IN [ok |-> TRUE, keep |-> keep,
              drop |-> IF typechecker_is_unreachable(tc) THEN 0
                       ELSE (Len(tc.type_stack) - label.type_stack_limit) - keep]

\* The drop and keep counts of a branch to the label at depth, when the
\* type checker knows the label.
GetBrDropKeepCount(s, depth) ==
  LET tc == s.r.typechecker
  IN IF ~HasLabel(tc, depth) THEN [ok |-> FALSE, drop |-> 0, keep |-> 0]
     ELSE LET label == TcLabel(tc, depth)
              keep == IF label.label_type # "Loop" THEN Len(label.sig) ELSE 0
          IN [ok |-> TRUE, keep |-> keep,
              drop |-> IF typechecker_is_unreachable(tc) THEN 0
                       ELSE (Len(tc.type_stack) - label.type_stack_limit) - keep]

CurrentFunc(s) == At(s.env.funcs, s.r.current_func)

GetReturnDropKeepCount(s) ==
  LET count == GetBrDropKeepCount(s, Len(s.r.label_stack) - 1)
  IN IF ~count.ok THEN count
     ELSE [count EXCEPT !.drop = @ + Len(CurrentFunc(s).param_and_local_types)]

EmitBr(s, depth, drop_count, keep_count) ==
  EmitBrOffset(EmitOpcode(EmitDropKeep(s, drop_count, keep_count), "Br"),
               depth, GetLabel(s, depth).offset)

\* Called after the type checker has accepted the target.
EmitBrTableOffset(s, depth) ==
  LET count == GetBrDropKeepCount(s, depth)
  IN EmitI8(EmitI32(EmitBrOffset(s, depth, GetLabel(s, depth).offset), count.drop), count.keep)

\* FixupTopLabel clearing the list without patching the sites.
FixupTopLabel_ClearOnly(s) ==
  LET top == Len(s.r.label_stack) - 1
  IN IF top < 0 \/ top >= Len(s.r.depth_fixups) THEN s
     ELSE [s EXCEPT !.r.depth_fixups[top + 1] = <<>>]

FixupTopLabel(s) ==
  LET offset == GetIstreamOffset(s)
      top == Len(s.r.label_stack) - 1
  IN \* top is unsigned: with no label it is above every size
     IF top < 0 \/ top >= Len(s.r.depth_fixups) THEN s
     ELSE [EmitI32AtEach(s, s.r.depth_fixups[top + 1], offset)
             EXCEPT !.r.depth_fixups[top + 1] = <<>>]

\* EmitFuncOffset emitting the offset without recording a fixup.
EmitFuncOffset_NoFixup(s, func, func_index) == EmitI32(s, func.offset)

EmitFuncOffset(s, func, func_index) ==
  LET s1 == IF func.offset = kInvalidIstreamOffset
            THEN [s EXCEPT !.r.func_fixups =
                              AppendFixup(@, TranslateModuleFuncIndexToDefined(s, func_index),
                                          GetIstreamOffset(s))]
            ELSE s
  IN EmitI32(s1, func.offset)

PushLabel(s, offset, fixup_offset) ==
  [s EXCEPT !.r.label_stack = Append(@, Label(offset, fixup_offset))]

\* PopLabel leaving the label on the stack.
PopLabel_FixupsOnly(s) ==
  LET size == Len(s.r.label_stack) - 1
  IN [s EXCEPT !.r.depth_fixups = IF Len(@) > size THEN EraseFrom(@, size) ELSE @]

PopLabel(s) ==
  LET size == Len(s.r.label_stack) - 1
  IN [s EXCEPT !.r.label_stack = SubSeq(@, 1, size),
               !.r.depth_fixups = IF Len(@) > size THEN EraseFrom(@, size) ELSE @]

(***************************************************************************)
(* Function bodies.                                                        *)
(***************************************************************************)
WithTypeChecker(s, t) == [s EXCEPT !.r.typechecker = t.tc]

\* The type checker reports its errors through the reader's PrintError.
TypeCheckerFail(s, t, message) == Fail(WithTypeChecker(s, t), message)

BeginFunctionBody(s, index) ==
  LET env_index == TranslateFuncIndexToEnv(s, index)
      func == GetFuncByEnvIndex(s, env_index)
      sig == GetSignatureByEnvIndex(s, func.sig_index)
      offset == GetIstreamOffset(s)
      s1 == [s EXCEPT !.env.funcs[env_index + 1].offset = offset,
                      !.env.funcs[env_index + 1].local_decl_count = 0,
                      !.env.funcs[env_index + 1].local_count = 0,
                      !.r.current_func = env_index,
                      !.r.depth_fixups = <<>>,
                      !.r.label_stack = <<>>]
      defined_index == TranslateModuleFuncIndexToDefined(s, index)
      s2 == EmitI32AtEach(s1, At(s.r.func_fixups, defined_index), offset)
      s3 == [s2 EXCEPT !.env.funcs[env_index + 1].param_and_local_types = @ \o sig.param_types]
      t == typechecker_begin_function(s.r.typechecker, sig.result_types)
  IN Ok(PushLabel(WithTypeChecker(s3, t), kInvalidIstreamOffset, kInvalidIstreamOffset))

EndFunctionBody(s, index) ==
  LET s1 == FixupTopLabel(s)
      count == GetReturnDropKeepCount(s1)
  IN IF ~count.ok THEN Fail(s1, "invalid depth")
     ELSE LET t == typechecker_end_function(s1.r.typechecker)
          IN IF ~t.ok THEN TypeCheckerFail(s1, t, "type error at end of function")
             ELSE LET s2 == EmitOpcode(EmitDropKeep(WithTypeChecker(s1, t), count.drop, count.keep),
                                       "Return")
                  IN Ok([PopLabel(s2) EXCEPT !.r.current_func = kInvalidIndex])

OnLocalDeclCount(s, count) ==
  Ok([s EXCEPT !.env.funcs[s.r.current_func + 1].local_decl_count = count])

OnLocalDecl(s, decl_index, count, type) ==
  LET f == s.r.current_func + 1
      s1 == [s EXCEPT !.env.funcs[f].local_count = @ + count,
                      !.env.funcs[f].param_and_local_types = @ \o Fill(count, type)]
  IN IF decl_index = CurrentFunc(s1).local_decl_count - 1
     THEN Ok(EmitI32(EmitOpcode(s1, "Alloca"), CurrentFunc(s1).local_count))
     ELSE Ok(s1)

CheckLocal(s, local_index) ==
  IF local_index >= Len(CurrentFunc(s).param_and_local_types)
  THEN Fail(s, "invalid local_index") ELSE Ok(s)

GetLocalTypeByIndex(func, local_index) == At(func.param_and_local_types, local_index)

TranslateLocalIndex(s, local_index) ==
  (Len(s.r.typechecker.type_stack) + Len(CurrentFunc(s).param_and_local_types)) - local_index

\* OnGetLocalExpr taking the index after the type checker has pushed the
\* local's type.
OnGetLocalExpr_IndexAfterPush(s, local_index) ==
  LET checked == CheckLocal(s, local_index)
  IN IF checked.res = "Error" THEN checked
     ELSE LET type == GetLocalTypeByIndex(CurrentFunc(s), local_index)
              t == typechecker_on_get_local(s.r.typechecker, type)
              s1 == WithTypeChecker(s, t)
          IN Ok(EmitI32(EmitOpcode(s1, "GetLocal"), TranslateLocalIndex(s1, local_index)))

OnGetLocalExpr(s, local_index) ==
  LET checked == CheckLocal(s, local_index)
  IN IF checked.res = "Error" THEN checked
     ELSE LET type == GetLocalTypeByIndex(CurrentFunc(s), local_index)
              \* the index is relative to the stack before the push
              translated_local_index == TranslateLocalIndex(s, local_index)
              t == typechecker_on_get_local(s.r.typechecker, type)
          IN IF ~t.ok THEN TypeCheckerFail(s, t, "type error at get_local")
             ELSE Ok(EmitI32(EmitOpcode(WithTypeChecker(s, t), "GetLocal"),
                             translated_local_index))

\* OnSetLocalExpr translating the index while the value is still on the
\* stack.
OnSetLocalExpr_IndexBeforePop(s, local_index) ==
  LET checked == CheckLocal(s, local_index)
  IN IF checked.res = "Error" THEN checked
     ELSE LET type == GetLocalTypeByIndex(CurrentFunc(s), local_index)
              t == typechecker_on_set_local(s.r.typechecker, type)
          IN IF ~t.ok THEN TypeCheckerFail(s, t, "type error at set_local")
             ELSE LET s1 == WithTypeChecker(s, t)
                  IN Ok(EmitI32(EmitOpcode(s1, "SetLocal"), TranslateLocalIndex(s, local_index)))

OnSetLocalExpr(s, local_index) ==
  LET checked == CheckLocal(s, local_index)
  IN IF checked.res = "Error" THEN checked
     ELSE LET type == GetLocalTypeByIndex(CurrentFunc(s), local_index)
              t == typechecker_on_set_local(s.r.typechecker, type)
          IN IF ~t.ok THEN TypeCheckerFail(s, t, "type error at set_local")
             ELSE LET s1 == WithTypeChecker(s, t)
                  IN Ok(EmitI32(EmitOpcode(s1, "SetLocal"), TranslateLocalIndex(s1, local_index)))

OnTeeLocalExpr(s, local_index) ==
  LET checked == CheckLocal(s, local_index)
  IN IF checked.res = "Error" THEN checked
     ELSE LET type == GetLocalTypeByIndex(CurrentFunc(s), local_index)
              t == typechecker_on_tee_local(s.r.typechecker, type)
          IN IF ~t.ok THEN TypeCheckerFail(s, t, "type error at tee_local")
             ELSE LET s1 == WithTypeChecker(s, t)
                  IN Ok(EmitI32(EmitOpcode(s1, "TeeLocal"), TranslateLocalIndex(s1, local_index)))

CheckGlobal(s, global_index) ==
  IF global_index >= Len(s.r.global_index_mapping)
  THEN Fail(s, "invalid global_index") ELSE Ok(s)

\* CheckHasMemory accepting a module without a memory.
CheckHasMemory_Skipped(s, opcode) == Ok(s)

CheckHasMemory(s, opcode) ==
  IF Module(s).memory_index = kInvalidIndex
  THEN Fail(s, "requires an imported or defined memory") ELSE Ok(s)

\* 1U << count as a 32-bit pattern, for a count below 32.
ShiftLeft1(count) == IF count = 31 THEN -2147483647 - 1 ELSE 2 ^ count

\* x > y for 32-bit patterns read as unsigned.
UnsignedGreater(x, y) == IF (x < 0) = (y < 0) THEN x > y ELSE x < 0

\* CheckAlign without the test for a shift count of 32 or more: the shift
\* then takes the count modulo 32.
CheckAlign_ShiftOnly(s, alignment_log2, natural_alignment) ==
  IF UnsignedGreater(ShiftLeft1(alignment_log2 % 32), natural_alignment)
  THEN Fail(s, "alignment must not be larger than natural alignment")
  ELSE Ok(s)

CheckAlign(s, alignment_log2, natural_alignment) ==
  IF alignment_log2 >= 32 \/ UnsignedGreater(ShiftLeft1(alignment_log2), natural_alignment)
  THEN Fail(s, "alignment must not be larger than natural alignment")
  ELSE Ok(s)

OnUnaryExpr(s, opcode) ==
  LET t == check_opcode1(s.r.typechecker, OpcodeInfo[opcode].param1, OpcodeInfo[opcode].result)
  IN IF ~t.ok THEN TypeCheckerFail(s, t, "type error at unary")
     ELSE Ok(EmitOpcode(WithTypeChecker(s, t), opcode))

OnBinaryExpr(s, opcode) ==
  LET t == check_opcode2(s.r.typechecker, OpcodeInfo[opcode].param1, OpcodeInfo[opcode].param2,
                         OpcodeInfo[opcode].result)
  IN IF ~t.ok THEN TypeCheckerFail(s, t, "type error at binary")
     ELSE Ok(EmitOpcode(WithTypeChecker(s, t), opcode))

OnBlockExpr(s, sig) ==
  LET t == typechecker_on_block(s.r.typechecker, sig)
  IN Ok(PushLabel(WithTypeChecker(s, t), kInvalidIstreamOffset, kInvalidIstreamOffset))

\* OnLoopExpr pushing its label without an offset, as a block does.
OnLoopExpr_NoOffset(s, sig) ==
  LET t == typechecker_on_loop(s.r.typechecker, sig)
  IN Ok(PushLabel(WithTypeChecker(s, t), kInvalidIstreamOffset, kInvalidIstreamOffset))

OnLoopExpr(s, sig) ==
  LET t == typechecker_on_loop(s.r.typechecker, sig)
  IN Ok(PushLabel(WithTypeChecker(s, t), GetIstreamOffset(s), kInvalidIstreamOffset))

OnIfExpr(s, sig) ==
  LET t == typechecker_on_if(s.r.typechecker, sig)
  IN IF ~t.ok THEN TypeCheckerFail(s, t, "type error at if")
     ELSE LET s1 == EmitOpcode(WithTypeChecker(s, t), "BrUnless")
              fixup_offset == GetIstreamOffset(s1)
          IN Ok(PushLabel(EmitI32(s1, kInvalidIstreamOffset), kInvalidIstreamOffset,
                          fixup_offset))

\* OnElseExpr leaving the label's fixup_offset at the condition's operand.
OnElseExpr_KeepsFixupOffset(s) ==
  LET t == typechecker_on_else(s.r.typechecker)
  IN IF ~t.ok THEN TypeCheckerFail(s, t, "type error at else")
     ELSE LET fixup_cond_offset == TopLabel(s).fixup_offset
              s1 == EmitOpcode(WithTypeChecker(s, t), "Br")
              s3 == EmitI32(s1, kInvalidIstreamOffset)
          IN Ok(EmitI32At(s3, fixup_cond_offset, GetIstreamOffset(s3)))

\* OnElseExpr pushing a label of its own for the else arm.
OnElseExpr_PushesLabel(s) ==
  LET t == typechecker_on_else(s.r.typechecker)
  IN IF ~t.ok THEN TypeCheckerFail(s, t, "type error at else")
     ELSE LET fixup_cond_offset == TopLabel(s).fixup_offset
              s1 == EmitOpcode(WithTypeChecker(s, t), "Br")
              s2 == PushLabel(s1, kInvalidIstreamOffset, GetIstreamOffset(s1))
              s3 == EmitI32(s2, kInvalidIstreamOffset)
          IN Ok(EmitI32At(s3, fixup_cond_offset, GetIstreamOffset(s3)))

\* OnElseExpr patching the condition's branch before the operand of its own
\* Br is written.
OnElseExpr_PatchBeforeOperand(s) ==
  LET t == typechecker_on_else(s.r.typechecker)
  IN IF ~t.ok THEN TypeCheckerFail(s, t, "type error at else")
     ELSE LET fixup_cond_offset == TopLabel(s).fixup_offset
              s1 == EmitOpcode(WithTypeChecker(s, t), "Br")
              s2 == [s1 EXCEPT !.r.label_stack[Len(s.r.label_stack)].fixup_offset =
                                  GetIstreamOffset(s1)]
              s3 == EmitI32At(s2, fixup_cond_offset, GetIstreamOffset(s2))
          IN Ok(EmitI32(s3, kInvalidIstreamOffset))

OnElseExpr(s) ==
  LET t == typechecker_on_else(s.r.typechecker)
  IN IF ~t.ok THEN TypeCheckerFail(s, t, "type error at else")
     ELSE LET fixup_cond_offset == TopLabel(s).fixup_offset
              s1 == EmitOpcode(WithTypeChecker(s, t), "Br")
              s2 == [s1 EXCEPT !.r.label_stack[Len(s.r.label_stack)].fixup_offset =
                                  GetIstreamOffset(s1)]
              s3 == EmitI32(s2, kInvalidIstreamOffset)
          IN Ok(EmitI32At(s3, fixup_cond_offset, GetIstreamOffset(s3)))

\* OnEndExpr popping the label before the fixups of its depth are patched.
OnEndExpr_PopBeforeFixup(s) ==
  IF ~HasLabel(s.r.typechecker, 0) THEN Fail(s, "invalid depth")
  ELSE LET label_type == TcLabel(s.r.typechecker, 0).label_type
           t == typechecker_on_end(s.r.typechecker)
       IN IF ~t.ok THEN TypeCheckerFail(s, t, "type error at end")
          ELSE LET s1 == WithTypeChecker(s, t)
                   s2 == IF label_type \in {"If", "Else"}
                         THEN EmitI32At(s1, TopLabel(s1).fixup_offset, GetIstreamOffset(s1))
                         ELSE s1
               IN Ok(FixupTopLabel(PopLabel(s2)))

OnEndExpr(s) ==
  IF ~HasLabel(s.r.typechecker, 0) THEN Fail(s, "invalid depth")
  ELSE LET label_type == TcLabel(s.r.typechecker, 0).label_type
           t == typechecker_on_end(s.r.typechecker)
       IN IF ~t.ok THEN TypeCheckerFail(s, t, "type error at end")
          ELSE LET s1 == WithTypeChecker(s, t)
                   s2 == IF label_type \in {"If", "Else"}
                         THEN EmitI32At(s1, TopLabel(s1).fixup_offset, GetIstreamOffset(s1))
                         ELSE s1
               IN Ok(PopLabel(FixupTopLabel(s2)))

\* OnBrExpr emitting the branch whatever the type checker says.
OnBrExpr_Unchecked(s, depth) ==
  LET count == GetBrDropKeepCount(s, depth)
  IN IF ~count.ok THEN Fail(s, "invalid depth")
     ELSE LET t == typechecker_on_br(s.r.typechecker, depth)
          IN Ok(EmitBr(WithTypeChecker(s, t), depth, count.drop, count.keep))

OnBrExpr(s, depth) ==
  LET count == GetBrDropKeepCount(s, depth)
  IN IF ~count.ok THEN Fail(s, "invalid depth")
     ELSE LET t == typechecker_on_br(s.r.typechecker, depth)
          IN IF ~t.ok THEN TypeCheckerFail(s, t, "type error at br")
             ELSE Ok(EmitBr(WithTypeChecker(s, t), depth, count.drop, count.keep))

\* OnBrIfExpr taking the counts while the condition is still on the stack.
OnBrIfExpr_CountsBeforePop(s, depth) ==
  LET t == typechecker_on_br_if(s.r.typechecker, depth)
  IN IF ~t.ok THEN TypeCheckerFail(s, t, "type error at br_if")
     ELSE LET s1 == WithTypeChecker(s, t)
              count == GetBrDropKeepCount(s, depth)
              s2 == EmitOpcode(s1, "BrUnless")
              fixup_br_offset == GetIstreamOffset(s2)
              s3 == EmitBr(EmitI32(s2, kInvalidIstreamOffset), depth, count.drop, count.keep)
          IN IF ~count.ok THEN Fail(s1, "invalid depth")
             ELSE Ok(EmitI32At(s3, fixup_br_offset, GetIstreamOffset(s3)))

OnBrIfExpr(s, depth) ==
  LET t == typechecker_on_br_if(s.r.typechecker, depth)
  IN IF ~t.ok THEN TypeCheckerFail(s, t, "type error at br_if")
     ELSE LET s1 == WithTypeChecker(s, t)
              count == GetBrDropKeepCount(s1, depth)
              s2 == EmitOpcode(s1, "BrUnless")
              fixup_br_offset == GetIstreamOffset(s2)
              s3 == EmitBr(EmitI32(s2, kInvalidIstreamOffset), depth, count.drop, count.keep)
          IN IF ~count.ok THEN Fail(s1, "invalid depth")
             ELSE Ok(EmitI32At(s3, fixup_br_offset, GetIstreamOffset(s3)))

\* The loop of OnBrTableExpr over the targets, the default target last.
RECURSIVE BrTableTargets(_, _)
BrTableTargets(s, depths) ==
  IF depths = <<>> THEN Ok(s)
  ELSE LET depth == Head(depths)
           t == typechecker_on_br_table_target(s.r.typechecker, depth)
       IN IF ~t.ok THEN TypeCheckerFail(s, t, "type error at br_table")
          ELSE BrTableTargets(EmitBrTableOffset(WithTypeChecker(s, t), depth), Tail(depths))

\* OnBrTableExpr emitting the entry of the default target first.
OnBrTableExpr_DefaultFirst(s, num_targets, target_depths, default_target_depth) ==
  LET t == typechecker_begin_br_table(s.r.typechecker)
  IN IF ~t.ok THEN TypeCheckerFail(s, t, "type error at br_table")
     ELSE LET s1 == EmitI32(EmitOpcode(WithTypeChecker(s, t), "BrTable"), num_targets)
              fixup_table_offset == GetIstreamOffset(s1)
              s2 == EmitI32(EmitOpcode(EmitI32(s1, kInvalidIstreamOffset), "Data"),
                            (num_targets + 1) * WABT_TABLE_ENTRY_SIZE)
              s3 == EmitI32At(s2, fixup_table_offset, GetIstreamOffset(s2))
              s4 == BrTableTargets(s3, << default_target_depth >> \o target_depths)
          IN IF s4.res = "Error" THEN s4
             ELSE LET u == typechecker_end_br_table(s4.r.typechecker)
                  IN IF ~u.ok THEN TypeCheckerFail(s4, u, "type error at br_table")
                     ELSE Ok(WithTypeChecker(s4, u))

OnBrTableExpr(s, num_targets, target_depths, default_target_depth) ==
  LET t == typechecker_begin_br_table(s.r.typechecker)
  IN IF ~t.ok THEN TypeCheckerFail(s, t, "type error at br_table")
     ELSE LET s1 == EmitI32(EmitOpcode(WithTypeChecker(s, t), "BrTable"), num_targets)
              fixup_table_offset == GetIstreamOffset(s1)
              s2 == EmitI32(EmitOpcode(EmitI32(s1, kInvalidIstreamOffset), "Data"),
                            (num_targets + 1) * WABT_TABLE_ENTRY_SIZE)
              s3 == EmitI32At(s2, fixup_table_offset, GetIstreamOffset(s2))
              s4 == BrTableTargets(s3, Append(target_depths, default_target_depth))
          IN IF s4.res = "Error" THEN s4
             ELSE LET u == typechecker_end_br_table(s4.r.typechecker)
                  IN IF ~u.ok THEN TypeCheckerFail(s4, u, "type error at br_table")
                     ELSE Ok(WithTypeChecker(s4, u))

OnCallExpr(s, func_index) ==
  LET func == GetFuncByModuleIndex(s, func_index)
      sig == GetSignatureByEnvIndex(s, func.sig_index)
      t == typechecker_on_call(s.r.typechecker, sig.param_types, sig.result_types)
  IN IF ~t.ok THEN TypeCheckerFail(s, t, "type error at call")
     ELSE IF func.is_host
     THEN Ok(EmitI32(EmitOpcode(WithTypeChecker(s, t), "CallHost"),
                     TranslateFuncIndexToEnv(s, func_index)))
     ELSE Ok(EmitFuncOffset(EmitOpcode(WithTypeChecker(s, t), "Call"), func, func_index))

OnCallIndirectExpr(s, sig_index) ==
  IF Module(s).table_index = kInvalidIndex
  THEN Fail(s, "found call_indirect operator, but no table")
  ELSE LET sig == GetSignatureByModuleIndex(s, sig_index)
           t == typechecker_on_call_indirect(s.r.typechecker, sig.param_types, sig.result_types)
       IN IF ~t.ok THEN TypeCheckerFail(s, t, "type error at call_indirect")
          ELSE Ok(EmitI32(EmitI32(EmitOpcode(WithTypeChecker(s, t), "CallIndirect"),
                                  Module(s).table_index),
                          TranslateSigIndexToEnv(s, sig_index)))

OnDropExpr(s) ==
  LET t == typechecker_on_drop(s.r.typechecker)
  IN IF ~t.ok THEN TypeCheckerFail(s, t, "type stack size too small at drop")
     ELSE Ok(EmitOpcode(WithTypeChecker(s, t), "Drop"))

OnI32ConstExpr(s, value) ==
  LET t == typechecker_on_const(s.r.typechecker, "i32")
  IN Ok(EmitI32(EmitOpcode(WithTypeChecker(s, t), "I32Const"), value))

OnI64ConstExpr(s, value) ==
  LET t == typechecker_on_const(s.r.typechecker, "i64")
  IN Ok(EmitI64(EmitOpcode(WithTypeChecker(s, t), "I64Const"), value))

OnGrowMemoryExpr(s) ==
  LET checked == CheckHasMemory(s, "GrowMemory")
      t == typechecker_on_grow_memory(s.r.typechecker)
  IN IF checked.res = "Error" THEN checked
     ELSE IF ~t.ok THEN TypeCheckerFail(s, t, "type error at grow_memory")
     ELSE Ok(EmitI32(EmitOpcode(WithTypeChecker(s, t), "GrowMemory"), Module(s).memory_index))

OnLoadExpr(s, opcode, alignment_log2, offset) ==
  LET has_memory == CheckHasMemory(s, opcode)
      aligned == CheckAlign(s, alignment_log2, get_opcode_memory_size(opcode))
      t == check_opcode1(s.r.typechecker, OpcodeInfo[opcode].param1, OpcodeInfo[opcode].result)
  IN IF has_memory.res = "Error" THEN has_memory
     ELSE IF aligned.res = "Error" THEN aligned
     ELSE IF ~t.ok THEN TypeCheckerFail(s, t, "type error at load")
     ELSE Ok(EmitI32(EmitI32(EmitOpcode(WithTypeChecker(s, t), opcode), Module(s).memory_index),
                     offset))

OnStoreExpr(s, opcode, alignment_log2, offset) ==
  LET has_memory == CheckHasMemory(s, opcode)
      aligned == CheckAlign(s, alignment_log2, get_opcode_memory_size(opcode))
      t == check_opcode2(s.r.typechecker, OpcodeInfo[opcode].param1, OpcodeInfo[opcode].param2,
                         OpcodeInfo[opcode].result)
  IN IF has_memory.res = "Error" THEN has_memory
     ELSE IF aligned.res = "Error" THEN aligned
     ELSE IF ~t.ok THEN TypeCheckerFail(s, t, "type error at store")
     ELSE Ok(EmitI32(EmitI32(EmitOpcode(WithTypeChecker(s, t), opcode), Module(s).memory_index),
                     offset))

OnCurrentMemoryExpr(s) ==
  LET checked == CheckHasMemory(s, "CurrentMemory")
      t == typechecker_on_current_memory(s.r.typechecker)
  IN IF checked.res = "Error" THEN checked
     ELSE Ok(EmitI32(EmitOpcode(WithTypeChecker(s, t), "CurrentMemory"), Module(s).memory_index))

OnNopExpr(s) == Ok(s)

OnReturnExpr(s) ==
  LET count == GetReturnDropKeepCount(s)
  IN IF ~count.ok THEN Fail(s, "invalid depth")
     ELSE LET t == typechecker_on_return(s.r.typechecker)
          IN IF ~t.ok THEN TypeCheckerFail(s, t, "type error at return")
             ELSE Ok(EmitOpcode(EmitDropKeep(WithTypeChecker(s, t), count.drop, count.keep),
                                "Return"))

OnSelectExpr(s) ==
  LET t == typechecker_on_select(s.r.typechecker)
  IN IF ~t.ok THEN TypeCheckerFail(s, t, "type error at select")
     ELSE Ok(EmitOpcode(WithTypeChecker(s, t), "Select"))

OnUnreachableExpr(s) ==
  LET t == typechecker_on_unreachable(s.r.typechecker)
  IN IF ~t.ok THEN TypeCheckerFail(s, t, "type error at unreachable")
     ELSE Ok(EmitOpcode(WithTypeChecker(s, t), "Unreachable"))

(***************************************************************************)
(* read_binary_interpreter after read_binary has returned.                 *)
(***************************************************************************)
ReleaseOutputBuffer(s) ==
  [s EXCEPT !.env.istream = s.r.istream, !.r.istream = NullIstream, !.r.owns_istream = FALSE]

\* The end of read_binary_interpreter without the assignment of istream_end.
ReadBinaryInterpreterEnd_EndNotSet(s, read_result) ==
  LET s1 == ReleaseOutputBuffer(s)
  IN IF read_result = "Ok"
     THEN [s1 EXCEPT !.env.istream = Resize(s1.env.istream, s1.r.istream_offset, 0),
                     !.res = "Ok"]
     ELSE [s1 EXCEPT !.env = reset_environment_to_mark(s1.env, Mark), !.res = "Error"]

ReadBinaryInterpreterEnd(s, read_result) ==
  LET s1 == ReleaseOutputBuffer(s)
  IN IF read_result = "Ok"
     THEN LET data == Resize(s1.env.istream, s1.r.istream_offset, 0)
          IN [s1 EXCEPT !.env.istream = data,
                        !.env.modules[s.r.module + 1].istream_end = Len(data),
                        !.res = "Ok"]
     ELSE [s1 EXCEPT !.env = reset_environment_to_mark(s1.env, Mark), !.res = "Error"]

(***************************************************************************)
(* The decoder (read_binary): it makes the callbacks in section order,     *)
(* each item of a section in turn, and stops at the first callback that    *)
(* returns Error.  dec.sec is the section being read, dec.n its item count,*)
(* dec.i the items delivered, dec.sub the position inside an item, dec.k   *)
(* the entries of the item still to deliver, dec.c the instructions        *)
(* delivered since the initial state.                                      *)
(***************************************************************************)
SectionOrder ==
  << "type", "import", "function", "table", "memory", "global", "export", "start",
     "elem", "code", "data" >>

SectionIndex(sec) ==
  IF sec = "none" THEN 0 ELSE CHOOSE k \in 1..Len(SectionOrder) : SectionOrder[k] = sec

Decoder(sec, n, i, sub) == [sec |-> sec, n |-> n, i |-> i, sub |-> sub, k |-> 0, c |-> 0]

SectionDone == dec.i = dec.n /\ dec.sub = ""

CanStart(sec) == pc = "reading" /\ SectionDone /\ SectionIndex(dec.sec) < SectionIndex(sec)

InItem(sec, sub) == pc = "reading" /\ dec.sec = sec /\ dec.i < dec.n /\ dec.sub = sub

NextItem == [dec EXCEPT !.i = @ + 1, !.sub = "", !.k = 0]

\* An initializer expression is read next: of a global, or of a segment.
InInitExpr ==
  /\ pc = "reading" /\ dec.i < dec.n
  /\ \/ dec.sec = "global" /\ dec.sub = "init"
     \/ dec.sec \in {"elem", "data"} /\ dec.sub = ""

Sub(sub) == [dec EXCEPT !.sub = sub]

Cur == [env |-> env, r |-> reader, errors |-> errors, res |-> "Ok"]

\* One callback: its effects, its record in `last`, and the decoder's move.
Step(cb, args, out, next_dec) ==
  /\ env' = out.env
  /\ reader' = out.r
  /\ errors' = out.errors
  /\ last' = [cb |-> cb, args |-> args, res |-> out.res]
  /\ pc' = IF out.res = "Ok" THEN "reading" ELSE "failed"
  /\ dec' = IF out.res = "Ok" THEN next_dec ELSE dec
  /\ UNCHANGED out_module

(***************************************************************************)
(* Inputs.                                                                 *)
(***************************************************************************)
SigInputs == { FuncSignature(<<>>, <<>>), FuncSignature(<<"i32">>, <<"i32">>) }

ImportNameInputs ==
  { <<"host", "hf">>, <<"host", "new">>, <<"m", "f">>, <<"m", "t">>, <<"m", "mem">>,
    <<"m", "g">>, <<"m", "nofield">>, <<"nomodule", "f">> }

LimitsInputs == { Limits(0, 0, FALSE), Limits(1, 0, FALSE), Limits(2, 2, TRUE) }

ImportLimitsInputs == { Limits(1, 0, FALSE), Limits(1, 1, TRUE), Limits(2, 2, TRUE) }

HostDelegateInputs ==
  { [ok |-> TRUE, limits |-> Limits(1, 1, TRUE), value |-> 4],
    [ok |-> FALSE, limits |-> Limits(0, 0, FALSE), value |-> 0] }

GlobalTypeInputs == { "i32", "i64" }

ImportGlobalTypeInputs == { "i32" }

ExportNameInputs == { "a", "b" }

\* i32 patterns; -1 is 0xFFFFFFFF.
InitValueInputs == { 0, 1, WABT_PAGE_SIZE - 1, WABT_PAGE_SIZE, WABT_PAGE_SIZE + 1, -1 }

DataInputs == { <<>>, <<7>>, <<7, 8>> }

LocalDeclCountInputs == { 0, 1 }

BlockSigInputs == { <<>>, << "i32" >> }

BrDepthInputs == { 0, 1 }

BrTableInputs ==
  { [target_depths |-> <<>>, default_target_depth |-> 0],
    [target_depths |-> << 0 >>, default_target_depth |-> 1],
    [target_depths |-> << 1, 0 >>, default_target_depth |-> 0] }

I32ConstInputs == { -1 }

LocalIndexInputs == { 0, 1 }

\* Counts that satisfy EmitDropKeep's assertions: drop below UINT32_MAX
\* (-2 is 0xFFFFFFFE), keep at most 1.
DropInputs == { 0, 1, 2, 258, -2 }

KeepInputs == { 0, 1 }

LoadInputs == { "I32Load", "I64Load", "I32Load8S", "I32Load16S" }

StoreInputs == { "I32Store", "I32Store8" }

AlignmentInputs == { 0, 1, 2, 3, 4, 31, 32, 33 }

MemoryOffsetInputs == { 16 }

NumTypes == Len(reader.sig_index_mapping)

NumTotalFuncs == Len(reader.func_index_mapping)

NumTotalGlobals == Len(reader.global_index_mapping)

(***************************************************************************)
(* The callbacks of the sections before the code section.                  *)
(***************************************************************************)
DoOnTypeCount ==
  /\ CanStart("type")
  /\ \E count \in 0..MaxTypes :
       Step("OnTypeCount", <<count>>, OnTypeCount(Cur, count), Decoder("type", count, 0, ""))

DoOnType ==
  /\ InItem("type", "")
  /\ \E sig \in SigInputs :
       Step("OnType", <<dec.i, sig>>,
            OnType(Cur, dec.i, sig.param_types, sig.result_types), NextItem)

DoOnImportCount ==
  /\ CanStart("import")
  /\ \E count \in 0..MaxImports :
       Step("OnImportCount", <<count>>, OnImportCount(Cur, count),
            Decoder("import", count, 0, ""))

DoOnImport ==
  /\ InItem("import", "")
  /\ \E name \in ImportNameInputs :
       Step("OnImport", <<dec.i, name[1], name[2]>>,
            OnImport(Cur, dec.i, name[1], name[2]), Sub("named"))

DoOnImportFunc ==
  /\ InItem("import", "named")
  /\ \E sig_index \in 0..(NumTypes - 1), d \in HostDelegateInputs :
       Step("OnImportFunc", <<dec.i, sig_index>>,
            OnImportFunc(Cur, dec.i, sig_index, d), NextItem)

DoOnImportTable ==
  /\ InItem("import", "named")
  /\ \E elem_limits \in ImportLimitsInputs, d \in HostDelegateInputs :
       Step("OnImportTable", <<dec.i, elem_limits>>,
            OnImportTable(Cur, dec.i, elem_limits, d), NextItem)

DoOnImportMemory ==
  /\ InItem("import", "named")
  /\ \E page_limits \in ImportLimitsInputs, d \in HostDelegateInputs :
       Step("OnImportMemory", <<dec.i, page_limits>>,
            OnImportMemory(Cur, dec.i, page_limits, d), NextItem)

DoOnImportGlobal ==
  /\ InItem("import", "named")
  /\ \E type \in ImportGlobalTypeInputs, mutable_ \in BOOLEAN, d \in HostDelegateInputs :
       Step("OnImportGlobal", <<dec.i, type, mutable_>>,
            OnImportGlobal(Cur, dec.i, type, mutable_, d), NextItem)

DoOnFunctionCount ==
  /\ CanStart("function")
  /\ \E count \in 0..MaxFuncs :
       /\ count > 0 => NumTypes > 0
       /\ Step("OnFunctionCount", <<count>>, OnFunctionCount(Cur, count),
               Decoder("function", count, 0, ""))

DoOnFunction ==
  /\ InItem("function", "")
  /\ \E sig_index \in 0..(NumTypes - 1) :
       Step("OnFunction", <<reader.num_func_imports + dec.i, sig_index>>,
            OnFunction(Cur, reader.num_func_imports + dec.i, sig_index), NextItem)

DoOnTable ==
  /\ CanStart("table")
  /\ \E elem_limits \in LimitsInputs :
       Step("OnTable", <<0, elem_limits>>, OnTable(Cur, 0, elem_limits),
            Decoder("table", 1, 1, ""))

DoOnMemory ==
  /\ CanStart("memory")
  /\ \E page_limits \in LimitsInputs :
       Step("OnMemory", <<0, page_limits>>, OnMemory(Cur, 0, page_limits),
            Decoder("memory", 1, 1, ""))

DoOnGlobalCount ==
  /\ CanStart("global")
  /\ \E count \in 0..MaxGlobals :
       Step("OnGlobalCount", <<count>>, OnGlobalCount(Cur, count),
            Decoder("global", count, 0, ""))

DoBeginGlobal ==
  /\ InItem("global", "")
  /\ \E type \in GlobalTypeInputs, mutable_ \in BOOLEAN :
       Step("BeginGlobal", <<reader.num_global_imports + dec.i, type, mutable_>>,
            BeginGlobal(Cur, reader.num_global_imports + dec.i, type, mutable_), Sub("init"))

DoOnInitExprConst ==
  /\ InInitExpr
  /\ \E type \in GlobalTypeInputs, value \in InitValueInputs :
       /\ type = "i64" => value = 1
       /\ Step("OnInitExprConstExpr", <<type, value>>, OnInitExprConstExpr(Cur, type, value),
               Sub("value"))

DoOnInitExprGetGlobal ==
  /\ InInitExpr
  /\ \E global_index \in 0..MaxGlobals :
       Step("OnInitExprGetGlobalExpr", <<global_index>>,
            OnInitExprGetGlobalExpr(Cur, dec.i, global_index), Sub("value"))

DoEndGlobalInitExpr ==
  /\ InItem("global", "value")
  /\ Step("EndGlobalInitExpr", <<reader.num_global_imports + dec.i>>,
          EndGlobalInitExpr(Cur, reader.num_global_imports + dec.i), NextItem)

ExportItemInputs(kind) ==
  CASE kind = "func" -> 0..(NumTotalFuncs - 1)
    [] kind = "table" -> IF At(env.modules, reader.module).table_index # kInvalidIndex THEN {0} ELSE {}
    [] kind = "memory" -> IF At(env.modules, reader.module).memory_index # kInvalidIndex THEN {0} ELSE {}
    [] kind = "global" -> 0..(NumTotalGlobals - 1)

DoOnExportCount ==
  /\ CanStart("export")
  /\ \E count \in 0..MaxExports :
       Step("OnExportCount", <<count>>, Cur, Decoder("export", count, 0, ""))

DoOnExport ==
  /\ InItem("export", "")
  /\ \E kind \in {"func", "table", "memory", "global"}, name \in ExportNameInputs :
       \E item_index \in ExportItemInputs(kind) :
         Step("OnExport", <<dec.i, kind, item_index, name>>,
              OnExport(Cur, dec.i, kind, item_index, name), NextItem)

\* The decoder reads an elem section only when the module has a table.
DoOnElemSegmentCount ==
  /\ CanStart("elem")
  /\ \E count \in 0..MaxSegments :
       /\ count > 0 => At(env.modules, reader.module).table_index # kInvalidIndex
       /\ Step("OnElemSegmentCount", <<count>>, Cur, Decoder("elem", count, 0, ""))

\* The count of function indexes follows the offset expression.
DoEndElemSegmentInitExpr ==
  /\ InItem("elem", "value")
  /\ \E count \in 0..MaxElems :
       Step("EndElemSegmentInitExpr", <<dec.i>>, EndElemSegmentInitExpr(Cur, dec.i),
            IF count = 0 THEN NextItem ELSE [dec EXCEPT !.sub = "funcs", !.k = count])

\* The decoder passes the function index on unchecked.
DoOnElemSegmentFunctionIndex ==
  /\ InItem("elem", "funcs")
  /\ \E func_index \in 0..NumTotalFuncs :
       Step("OnElemSegmentFunctionIndex", <<dec.i, func_index>>,
            OnElemSegmentFunctionIndex(Cur, dec.i, func_index),
            IF dec.k = 1 THEN NextItem ELSE [dec EXCEPT !.k = @ - 1])

\* The decoder reads a data section only when the module has a memory.
DoOnDataSegmentCount ==
  /\ CanStart("data")
  /\ \E count \in 0..MaxSegments :
       /\ count > 0 => At(env.modules, reader.module).memory_index # kInvalidIndex
       /\ Step("OnDataSegmentCount", <<count>>, Cur, Decoder("data", count, 0, ""))

DoOnDataSegmentData ==
  /\ InItem("data", "value")
  /\ \E src_data \in DataInputs :
       Step("OnDataSegmentData", <<dec.i, src_data, Len(src_data)>>,
            OnDataSegmentData(Cur, dec.i, src_data, Len(src_data)), NextItem)

(***************************************************************************)
(* The callbacks of the code section.  The decoder reads as many bodies as *)
(* the function section declared, and an index that names a function is    *)
(* one it has checked.                                                     *)
(***************************************************************************)
DoOnFunctionBodyCount ==
  /\ CanStart("code")
  /\ NumTotalFuncs > reader.num_func_imports
  /\ LET count == NumTotalFuncs - reader.num_func_imports
     IN Step("OnFunctionBodyCount", <<count>>, Cur, Decoder("code", count, 0, ""))

DoBeginFunctionBody ==
  /\ InItem("code", "")
  /\ Step("BeginFunctionBody", <<reader.num_func_imports + dec.i>>,
          BeginFunctionBody(Cur, reader.num_func_imports + dec.i), Sub("locals"))

DoOnLocalDeclCount ==
  /\ InItem("code", "locals")
  /\ \E count \in LocalDeclCountInputs :
       Step("OnLocalDeclCount", <<count>>, OnLocalDeclCount(Cur, count),
            IF count = 0 THEN Sub("body") ELSE [dec EXCEPT !.sub = "decls", !.k = count])

DoOnLocalDecl ==
  /\ InItem("code", "decls")
  /\ LET decl_index == At(env.funcs, reader.current_func).local_decl_count - dec.k
     IN Step("OnLocalDecl", <<decl_index, 1, "i32">>, OnLocalDecl(Cur, decl_index, 1, "i32"),
             IF dec.k = 1 THEN [dec EXCEPT !.sub = "body", !.k = 0]
             ELSE [dec EXCEPT !.k = @ - 1])

\* An instruction of the body is read next.
InBody == InItem("code", "body") /\ dec.c < MaxInstr

NextInstr == [dec EXCEPT !.c = @ + 1]

DoOnBlockExpr ==
  /\ InBody
  /\ \E sig \in BlockSigInputs :
       Step("OnBlockExpr", <<sig>>, OnBlockExpr(Cur, sig), NextInstr)

DoOnLoopExpr ==
  /\ InBody
  /\ Step("OnLoopExpr", << <<>> >>, OnLoopExpr(Cur, <<>>), NextInstr)

DoOnIfExpr ==
  /\ InBody
  /\ \E sig \in BlockSigInputs :
       Step("OnIfExpr", <<sig>>, OnIfExpr(Cur, sig), NextInstr)

DoOnElseExpr ==
  /\ InBody
  /\ Step("OnElseExpr", <<>>, OnElseExpr(Cur), NextInstr)

\* An end that is not the last opcode of the body.
DoOnEndExpr ==
  /\ InBody
  /\ Step("OnEndExpr", <<>>, OnEndExpr(Cur), NextInstr)

DoOnBrExpr ==
  /\ InBody
  /\ \E depth \in BrDepthInputs :
       Step("OnBrExpr", <<depth>>, OnBrExpr(Cur, depth), NextInstr)

DoOnBrIfExpr ==
  /\ InBody
  /\ \E depth \in BrDepthInputs :
       Step("OnBrIfExpr", <<depth>>, OnBrIfExpr(Cur, depth), NextInstr)

DoOnBrTableExpr ==
  /\ InBody
  /\ \E table \in BrTableInputs :
       Step("OnBrTableExpr", <<table.target_depths, table.default_target_depth>>,
            OnBrTableExpr(Cur, Len(table.target_depths), table.target_depths,
                          table.default_target_depth), NextInstr)

DoOnCallExpr ==
  /\ InBody
  /\ \E func_index \in 0..(NumTotalFuncs - 1) :
       Step("OnCallExpr", <<func_index>>, OnCallExpr(Cur, func_index), NextInstr)

DoOnReturnExpr ==
  /\ InBody
  /\ Step("OnReturnExpr", <<>>, OnReturnExpr(Cur), NextInstr)

DoOnI32ConstExpr ==
  /\ InBody
  /\ \E value \in I32ConstInputs :
       Step("OnI32ConstExpr", <<value>>, OnI32ConstExpr(Cur, value), NextInstr)

DoOnDropExpr ==
  /\ InBody
  /\ Step("OnDropExpr", <<>>, OnDropExpr(Cur), NextInstr)

DoOnGetLocalExpr ==
  /\ InBody
  /\ \E local_index \in LocalIndexInputs :
       Step("OnGetLocalExpr", <<local_index>>, OnGetLocalExpr(Cur, local_index), NextInstr)

DoOnSetLocalExpr ==
  /\ InBody
  /\ \E local_index \in LocalIndexInputs :
       Step("OnSetLocalExpr", <<local_index>>, OnSetLocalExpr(Cur, local_index), NextInstr)

DoOnTeeLocalExpr ==
  /\ InBody
  /\ \E local_index \in LocalIndexInputs :
       Step("OnTeeLocalExpr", <<local_index>>, OnTeeLocalExpr(Cur, local_index), NextInstr)

\* The lowering step shared by br, br_if, return and the end of a body.
DoEmitDropKeep ==
  /\ InBody
  /\ \E drop \in DropInputs, keep \in KeepInputs :
       Step("EmitDropKeep", <<drop, keep>>, Ok(EmitDropKeep(Cur, drop, keep)), NextInstr)

DoOnUnreachableExpr ==
  /\ InBody
  /\ Step("OnUnreachableExpr", <<>>, OnUnreachableExpr(Cur), NextInstr)

DoOnLoadExpr ==
  /\ InBody
  /\ \E opcode \in LoadInputs, alignment_log2 \in AlignmentInputs, offset \in MemoryOffsetInputs :
       Step("OnLoadExpr", <<opcode, alignment_log2, offset>>,
            OnLoadExpr(Cur, opcode, alignment_log2, offset), NextInstr)

DoOnStoreExpr ==
  /\ InBody
  /\ \E opcode \in StoreInputs, alignment_log2 \in AlignmentInputs, offset \in MemoryOffsetInputs :
       Step("OnStoreExpr", <<opcode, alignment_log2, offset>>,
            OnStoreExpr(Cur, opcode, alignment_log2, offset), NextInstr)

DoOnCurrentMemoryExpr ==
  /\ InBody
  /\ Step("OnCurrentMemoryExpr", <<>>, OnCurrentMemoryExpr(Cur), NextInstr)

DoOnGrowMemoryExpr ==
  /\ InBody
  /\ Step("OnGrowMemoryExpr", <<>>, OnGrowMemoryExpr(Cur), NextInstr)

\* The end that is the last opcode of the body.
DoEndFunctionBody ==
  /\ InItem("code", "body")
  /\ Step("EndFunctionBody", <<reader.num_func_imports + dec.i>>,
          EndFunctionBody(Cur, reader.num_func_imports + dec.i), NextItem)

\* The decoder finds the binary malformed: it reports through OnError and
\* read_binary returns Error without another callback.
DoOnError ==
  /\ pc = "reading"
  /\ LET out == OnError(Cur, "malformed binary")
     IN /\ env' = out.env /\ reader' = out.r /\ errors' = out.errors
        /\ last' = [cb |-> "OnError", args |-> << "malformed binary" >>, res |-> "Error"]
        /\ pc' = "failed"
        /\ UNCHANGED <<dec, out_module>>

\* The code section is mandatory when functions are declared.
DoEndModule ==
  /\ pc = "reading" /\ SectionDone
  /\ dec.sec # "code" => NumTotalFuncs = reader.num_func_imports
  /\ LET out == EndModule(Cur)
     IN /\ env' = out.env /\ reader' = out.r /\ errors' = out.errors
        /\ last' = [cb |-> "EndModule", args |-> <<>>, res |-> out.res]
        /\ pc' = "ended"
        /\ UNCHANGED <<dec, out_module>>

\* read_binary has returned: Ok after EndModule, Error after a failed callback.
DoReturn ==
  /\ pc \in {"ended", "failed"}
  /\ LET read_result == IF pc = "ended" THEN "Ok" ELSE "Error"
         out == ReadBinaryInterpreterEnd(Cur, read_result)
     IN /\ env' = out.env /\ reader' = out.r /\ errors' = out.errors
        /\ out_module' = IF read_result = "Ok" THEN reader.module ELSE "null"
        /\ last' = [cb |-> "return", args |-> <<>>, res |-> read_result]
        /\ pc' = "returned"
        /\ UNCHANGED dec

StartInit(s) ==
  /\ env = s.env
  /\ reader = s.r
  /\ errors = s.errors
  /\ last = [cb |-> "", args |-> <<>>, res |-> "Ok"]
  /\ pc = "reading"
  /\ out_module = "unset"

Init == StartInit(Start) /\ dec = Decoder("none", 0, 0, "")

(***************************************************************************)
(* Spec: a translation from its start through the type and import          *)
(* sections, ended by EndModule or by the first failing callback.          *)
(***************************************************************************)
Next ==
  \/ DoOnTypeCount \/ DoOnType
  \/ DoOnImportCount \/ DoOnImport
  \/ DoOnImportFunc \/ DoOnImportTable \/ DoOnImportMemory \/ DoOnImportGlobal
  \/ DoOnError
  \/ DoEndModule \/ DoReturn

Spec == Init /\ [][Next]_vars

(***************************************************************************)
(* SpecDecl: the rest of the import section and the function, table,       *)
(* memory and global sections, from states the translation is in after the *)
(* type section and a first import.                                        *)
(***************************************************************************)
HostOk == [ok |-> TRUE, limits |-> Limits(1, 1, TRUE), value |-> 4]

\* After a type section declaring [] -> [] and [i32] -> [i32].
AfterTypes ==
  OnType(OnType(OnTypeCount(Start, 2), 0, <<>>, <<>>), 1, <<"i32">>, <<"i32">>)

AfterImportNamed(module_name, field_name) ==
  OnImport(OnImportCount(AfterTypes, 2), 0, module_name, field_name)

\* The translation state and the decoder's position after each prefix.
DeclPrefixes ==
  { [s |-> AfterTypes, dec |-> Decoder("type", 2, 2, "")],
    [s |-> OnImportFunc(AfterImportNamed("host", "new"), 0, 0, HostOk),
     dec |-> Decoder("import", 2, 1, "")],
    [s |-> OnImportGlobal(AfterImportNamed("m", "g"), 0, "i32", FALSE, HostOk),
     dec |-> Decoder("import", 2, 1, "")],
    [s |-> OnImportTable(AfterImportNamed("m", "t"), 0, Limits(1, 0, FALSE), HostOk),
     dec |-> Decoder("import", 2, 1, "")],
    [s |-> OnImportMemory(AfterImportNamed("host", "new"), 0, Limits(1, 0, FALSE), HostOk),
     dec |-> Decoder("import", 2, 1, "")] }

InitDecl == \E p \in DeclPrefixes : StartInit(p.s) /\ dec = p.dec

NextDecl ==
  \/ DoOnImport
  \/ DoOnImportFunc \/ DoOnImportTable \/ DoOnImportMemory \/ DoOnImportGlobal
  \/ DoOnFunctionCount \/ DoOnFunction
  \/ DoOnTable \/ DoOnMemory
  \/ DoOnGlobalCount
  \/ DoReturn

SpecDecl == InitDecl /\ [][NextDecl]_vars

(***************************************************************************)
(* SpecSeg: the elem and data sections and the commit in EndModule, from   *)
(* states the translation is in when the module imports or defines its     *)
(* table and memory and has no function body.                              *)
(***************************************************************************)
ImportedFunc(s, i) == OnImportFunc(OnImport(s, i, "m", "f"), i, 1, HostOk)

ImportedGlobal(s, i) == OnImportGlobal(OnImport(s, i, "m", "g"), i, "i32", FALSE, HostOk)

ImportedTable(s, i) == OnImportTable(OnImport(s, i, "m", "t"), i, Limits(1, 0, FALSE), HostOk)

ImportedMemory(s, i) == OnImportMemory(OnImport(s, i, "m", "mem"), i, Limits(1, 0, FALSE), HostOk)

SegPrefixes ==
  { [s |-> ImportedMemory(ImportedTable(ImportedGlobal(ImportedFunc(
             OnImportCount(AfterTypes, 4), 0), 1), 2), 3),
     dec |-> Decoder("import", 4, 4, "")],
    [s |-> OnMemory(OnTable(ImportedGlobal(ImportedFunc(OnImportCount(AfterTypes, 2), 0), 1),
                            0, Limits(2, 2, TRUE)), 0, Limits(1, 0, FALSE)),
     dec |-> Decoder("memory", 1, 1, "")],
    [s |-> OnMemory(OnTable(ImportedFunc(OnImportCount(AfterTypes, 1), 0),
                            0, Limits(1, 0, FALSE)), 0, Limits(0, 0, FALSE)),
     dec |-> Decoder("memory", 1, 1, "")] }

InitSeg == \E p \in SegPrefixes : StartInit(p.s) /\ dec = p.dec

NextSeg ==
  \/ DoOnElemSegmentCount
  \/ DoOnInitExprConst \/ DoOnInitExprGetGlobal
  \/ DoEndElemSegmentInitExpr \/ DoOnElemSegmentFunctionIndex
  \/ DoOnDataSegmentCount \/ DoOnDataSegmentData
  \/ DoEndModule \/ DoReturn

SpecSeg == InitSeg /\ [][NextSeg]_vars

(***************************************************************************)
(* SpecCommit: the elem and data sections of a module with two imported    *)
(* functions, a table of two slots and a memory of one page, so that       *)
(* segments can overlap with different values.                             *)
(***************************************************************************)
TwoFunctionsTableMemory ==
  OnMemory(OnTable(OnImportFunc(OnImport(ImportedFunc(OnImportCount(AfterTypes, 2), 0),
                                         1, "host", "new"), 1, 0, HostOk),
                   0, Limits(2, 2, TRUE)), 0, Limits(1, 0, FALSE))

InitCommit == StartInit(TwoFunctionsTableMemory) /\ dec = Decoder("memory", 1, 1, "")

SpecCommit == InitCommit /\ [][NextSeg]_vars

(***************************************************************************)
(* SpecInitExpr: initializer expressions.  The global section of a module  *)
(* that imports an immutable and a mutable global, and the element and     *)
(* data segments of the modules of SpecSeg, which define no global.        *)
(***************************************************************************)
InitExprPrefixes ==
  { [s |-> OnImportGlobal(OnImport(ImportedGlobal(OnImportCount(AfterTypes, 2), 0),
                                   1, "m", "mg"), 1, "i64", TRUE, HostOk),
     dec |-> Decoder("import", 2, 2, "")] }
  \cup { [s |-> OnGlobalCount(p.s, 0), dec |-> Decoder("global", 0, 0, "")] : p \in SegPrefixes }

InitInitExpr == \E p \in InitExprPrefixes : StartInit(p.s) /\ dec = p.dec

NextInitExpr ==
  \/ DoOnGlobalCount \/ DoBeginGlobal
  \/ DoOnInitExprConst \/ DoOnInitExprGetGlobal
  \/ DoEndGlobalInitExpr
  \/ DoOnElemSegmentCount \/ DoEndElemSegmentInitExpr \/ DoOnElemSegmentFunctionIndex
  \/ DoOnDataSegmentCount \/ DoOnDataSegmentData
  \/ DoEndModule \/ DoReturn

SpecInitExpr == InitInitExpr /\ [][NextInitExpr]_vars

(***************************************************************************)
(* SpecBody: the code section of a module with two functions, control      *)
(* flow and calls, from the end of the function section and from inside    *)
(* the first body.                                                         *)
(***************************************************************************)
\* A host function imported, two functions [] -> [] declared.
WithHostImport ==
  OnFunction(OnFunction(OnFunctionCount(
    OnImportFunc(OnImport(OnImportCount(AfterTypes, 1), 0, "host", "new"), 0, 0, HostOk), 2),
    1, 0), 2, 0)

\* No import, functions [i32] -> [i32] and [] -> [] declared.
WithoutImport == OnFunction(OnFunction(OnFunctionCount(AfterTypes, 2), 0, 1), 1, 0)

\* Inside the body of the module's first function, no local declared.
InFirstBody(s) == OnLocalDeclCount(BeginFunctionBody(s, s.r.num_func_imports), 0)

InBodyDecoder == [Decoder("code", 2, 0, "body") EXCEPT !.c = 0]

BodyPrefixes ==
  { [s |-> WithHostImport, dec |-> Decoder("function", 2, 2, "")],
    [s |-> WithoutImport, dec |-> Decoder("function", 2, 2, "")],
    \* i32.const; if
    [s |-> OnIfExpr(OnI32ConstExpr(InFirstBody(WithHostImport), -1), <<>>),
     dec |-> InBodyDecoder],
    \* a call of the second function; block
    [s |-> OnBlockExpr(OnCallExpr(InFirstBody(WithHostImport), 2), <<>>),
     dec |-> InBodyDecoder],
    \* block [i32]; i32.const
    [s |-> OnI32ConstExpr(OnBlockExpr(InFirstBody(WithoutImport), << "i32" >>), -1),
     dec |-> InBodyDecoder],
    \* loop; i32.const
    [s |-> OnI32ConstExpr(OnLoopExpr(InFirstBody(WithHostImport), <<>>), -1),
     dec |-> InBodyDecoder],
    \* i32.const; if [i32]; i32.const; else
    [s |-> OnElseExpr(OnI32ConstExpr(OnIfExpr(OnI32ConstExpr(InFirstBody(WithoutImport), -1),
                                              << "i32" >>), -1)),
     dec |-> InBodyDecoder],
    \* block; block; i32.const
    [s |-> OnI32ConstExpr(OnBlockExpr(OnBlockExpr(InFirstBody(WithHostImport), <<>>), <<>>), -1),
     dec |-> InBodyDecoder],
    \* loop [i32]; i32.const; i32.const
    [s |-> OnI32ConstExpr(OnI32ConstExpr(OnLoopExpr(InFirstBody(WithoutImport), << "i32" >>),
                                         -1), -1),
     dec |-> InBodyDecoder],
    \* i32.const; end; block: the end closes the function's label before the
    \* body ends
    [s |-> OnBlockExpr(OnEndExpr(OnI32ConstExpr(InFirstBody(WithoutImport), 0)),
                       <<>>),
     dec |-> InBodyDecoder],
    \* block; br 0; end; block
    [s |-> OnBlockExpr(OnEndExpr(OnBrExpr(OnBlockExpr(InFirstBody(WithHostImport), <<>>), 0)),
                       <<>>),
     dec |-> InBodyDecoder] }

InitBody == \E p \in BodyPrefixes : StartInit(p.s) /\ dec = p.dec

NextBody ==
  \/ DoOnFunctionBodyCount \/ DoBeginFunctionBody
  \/ DoOnLocalDeclCount \/ DoOnLocalDecl
  \/ DoOnBlockExpr \/ DoOnLoopExpr \/ DoOnIfExpr \/ DoOnElseExpr \/ DoOnEndExpr
  \/ DoOnBrExpr \/ DoOnBrIfExpr \/ DoOnBrTableExpr
  \/ DoOnCallExpr \/ DoOnReturnExpr
  \/ DoOnI32ConstExpr \/ DoOnDropExpr \/ DoOnUnreachableExpr
  \/ DoEndFunctionBody
  \/ DoEndModule \/ DoReturn

SpecBody == InitBody /\ [][NextBody]_vars

(***************************************************************************)
(* SpecMem: memory instructions in the body of a module's only function,   *)
(* for a module without a memory, with an imported one and with its own,   *)
(* from inside the body with two i32 values on the stack.                  *)
(***************************************************************************)
OneFunction(s) == OnFunction(OnFunctionCount(s, 1), s.r.num_func_imports, 0)

WithoutMemory == OneFunction(AfterTypes)

WithImportedMemory == OneFunction(ImportedMemory(OnImportCount(AfterTypes, 1), 0))

WithDefinedMemory == OnMemory(OneFunction(AfterTypes), 0, Limits(1, 0, FALSE))

TwoConsts(s) == OnI32ConstExpr(OnI32ConstExpr(InFirstBody(s), -1), -1)

MemPrefixes == { TwoConsts(WithoutMemory), TwoConsts(WithImportedMemory),
                 TwoConsts(WithDefinedMemory) }

InitMem == \E s \in MemPrefixes : StartInit(s) /\ dec = Decoder("code", 1, 0, "body")

NextMem ==
  \/ DoOnI32ConstExpr \/ DoOnDropExpr
  \/ DoOnLoadExpr \/ DoOnStoreExpr \/ DoOnCurrentMemoryExpr \/ DoOnGrowMemoryExpr
  \/ DoEndFunctionBody
  \/ DoEndModule \/ DoReturn

SpecMem == InitMem /\ [][NextMem]_vars

(***************************************************************************)
(* SpecExport: the export section, for a module that imports a function,   *)
(* an immutable and a mutable global and defines a function, a table, a    *)
(* memory, an immutable and a mutable global, and for a module that only   *)
(* imports.                                                                *)
(***************************************************************************)
ImportedMutableGlobal(s, i) == OnImportGlobal(OnImport(s, i, "m", "mg"), i, "i64", TRUE, HostOk)

DefinedGlobal(s, index, type, mutable_, value) ==
  EndGlobalInitExpr(OnInitExprConstExpr(BeginGlobal(s, index, type, mutable_), type, value), index)

WithEverything ==
  LET imports == ImportedMutableGlobal(ImportedGlobal(ImportedFunc(
                   OnImportCount(AfterTypes, 3), 0), 1), 2)
      declared == OnMemory(OnTable(OneFunction(imports), 0, Limits(1, 0, FALSE)),
                           0, Limits(1, 0, FALSE))
  IN DefinedGlobal(DefinedGlobal(OnGlobalCount(declared, 2), 2, "i32", FALSE, 1),
                   3, "i32", TRUE, 0)

ExportPrefixes ==
  { [s |-> WithEverything, dec |-> Decoder("global", 2, 2, "")],
    [s |-> ImportedMutableGlobal(ImportedGlobal(ImportedFunc(
             OnImportCount(AfterTypes, 3), 0), 1), 2),
     dec |-> Decoder("import", 3, 3, "")] }

InitExport == \E p \in ExportPrefixes : StartInit(p.s) /\ dec = p.dec

NextExport ==
  \/ DoOnExportCount \/ DoOnExport
  \/ DoEndModule \/ DoReturn

SpecExport == InitExport /\ [][NextExport]_vars

(***************************************************************************)
(* SpecLocal: the code section of a module whose only function has type    *)
(* [i32] -> [i32], with and without a declared local, and bodies of the    *)
(* instructions on locals.                                                 *)
(***************************************************************************)
WithIdentitySignature == OnFunction(OnFunctionCount(AfterTypes, 1), 0, 1)

InitLocal == StartInit(WithIdentitySignature) /\ dec = Decoder("function", 1, 1, "")

NextLocal ==
  \/ DoOnFunctionBodyCount \/ DoBeginFunctionBody
  \/ DoOnLocalDeclCount \/ DoOnLocalDecl
  \/ DoOnGetLocalExpr \/ DoOnSetLocalExpr \/ DoOnTeeLocalExpr
  \/ DoOnI32ConstExpr \/ DoOnDropExpr \/ DoOnUnreachableExpr
  \/ DoEndFunctionBody
  \/ DoEndModule \/ DoReturn

SpecLocal == InitLocal /\ [][NextLocal]_vars

(***************************************************************************)
(* SpecDropKeep: EmitDropKeep applied to counts drawn from DropInputs and  *)
(* KeepInputs, at the write cursors of the function bodies of SpecBody.    *)
(***************************************************************************)
InitDropKeep == InitBody /\ dec.sec = "code"

NextDropKeep == DoEmitDropKeep

SpecDropKeep == InitDropKeep /\ [][NextDropKeep]_vars

(***************************************************************************)
(* The module being translated, while the environment still holds it.      *)
(***************************************************************************)
ModuleAlive == Len(env.modules) > reader.module

TableIndex == IF ModuleAlive THEN At(env.modules, reader.module).table_index ELSE kInvalidIndex

MemoryIndex == IF ModuleAlive THEN At(env.modules, reader.module).memory_index ELSE kInvalidIndex

(***************************************************************************)
(* C1.  Rollback soundness: when a callback has returned Error, then after *)
(* read_binary_interpreter has returned the environment is the environment *)
(* before the call (every sequence, the contents of the modules that       *)
(* already existed and the istream included) and out_module is null.       *)
(***************************************************************************)
C1_RollbackSoundness ==
  (pc = "returned" /\ last.res = "Error") => (env = Env0 /\ out_module = "null")

(***************************************************************************)
(* C2.  Commit atomicity: until EndModule runs, every slot of every table  *)
(* and every byte of every memory holds the value it had before the        *)
(* translation (for a table or memory the module created: the value it was *)
(* created with), whatever segments have been recorded; and when the       *)
(* translation fails the recorded writes are never applied.                *)
(***************************************************************************)
TablesUntouched ==
  \A i \in 1..Len(env.tables) :
    env.tables[i].func_indexes =
      IF i <= Len(Env0.tables) THEN Env0.tables[i].func_indexes
      ELSE Fill(Len(env.tables[i].func_indexes), kInvalidIndex)

MemoriesUntouched ==
  \A i \in 1..Len(env.memories) :
    env.memories[i].data =
      IF i <= Len(Env0.memories) THEN Env0.memories[i].data ELSE NoBindings

NotCommitted == pc \in {"reading", "failed"} \/ (pc = "returned" /\ last.res = "Error")

C2_CommitAtomicity == NotCommitted => (TablesUntouched /\ MemoriesUntouched)

\* A failed translation that had recorded writes to a table and a memory
\* that existed before it.
C2_Witness ==
  /\ pc = "failed"
  /\ TableIndex = 0 /\ MemoryIndex = 0
  /\ ApplyElemSegments(env.tables, reader.elem_segment_infos) # env.tables
  /\ ApplyDataSegments(env.memories, reader.data_segment_infos) # env.memories

(***************************************************************************)
(* The istream read back, instruction by instruction: the operands that    *)
(* hold an istream offset.                                                 *)
(***************************************************************************)
\* The bytes of immediates that follow an opcode byte.
ImmediateSize(op) ==
  CASE op \in {Opcode.Br, Opcode.BrUnless, Opcode.Call, Opcode.CallHost, Opcode.GetLocal,
               Opcode.SetLocal, Opcode.TeeLocal, Opcode.GetGlobal, Opcode.SetGlobal,
               Opcode.I32Const, Opcode.CurrentMemory, Opcode.GrowMemory, Opcode.Alloca,
               Opcode.Data} -> 4
    [] op = Opcode.DropKeep -> 5
    [] op \in {Opcode.BrTable, Opcode.CallIndirect, Opcode.I64Const, Opcode.I32Load,
               Opcode.I64Load, Opcode.I32Load8S, Opcode.I32Load16S, Opcode.I64Load32U,
               Opcode.I32Store, Opcode.I64Store, Opcode.I32Store8, Opcode.I32Store16} -> 8
    [] OTHER -> 0

OffsetOperand(istream, kind, at) == [kind |-> kind, at |-> at, value |-> ReadI32(istream, at)]

\* The offset operands of the instruction at `at`; the entries that follow a
\* Data opcode are the targets of a br_table.
OffsetOperandsAt(istream, at) ==
  LET op == istream[at + 1]
  IN CASE op = Opcode.Br -> { OffsetOperand(istream, "Br", at + 1) }
       [] op = Opcode.BrUnless -> { OffsetOperand(istream, "BrUnless", at + 1) }
       [] op = Opcode.Call -> { OffsetOperand(istream, "Call", at + 1) }
       [] op = Opcode.BrTable -> { OffsetOperand(istream, "BrTable", at + 5) }
       [] op = Opcode.Data ->
            { OffsetOperand(istream, "BrTableEntry", at + 5 + k * WABT_TABLE_ENTRY_SIZE) :
                k \in 0..((ReadI32(istream, at + 1) \div WABT_TABLE_ENTRY_SIZE) - 1) }
       [] OTHER -> {}

InstructionSize(istream, at) ==
  LET op == istream[at + 1]
  IN 1 + ImmediateSize(op) + (IF op = Opcode.Data THEN ReadI32(istream, at + 1) ELSE 0)

RECURSIVE OffsetOperands(_, _, _)
OffsetOperands(istream, from, to) ==
  IF from >= to THEN {}
  ELSE OffsetOperandsAt(istream, from)
         \cup OffsetOperands(istream, from + InstructionSize(istream, from), to)

\* The offset operands the translation has emitted for its module.
ModuleOffsetOperands ==
  OffsetOperands(reader.istream, At(env.modules, reader.module).istream_start,
                 reader.istream_offset)

(***************************************************************************)
(* C3.  Every fixup is resolved: when EndModule has returned Ok, every     *)
(* body having been translated from BeginFunctionBody to EndFunctionBody,  *)
(* no branch target, if/else target, br_table table offset, br_table entry *)
(* or call target in the module's part of the istream holds                *)
(* kInvalidIstreamOffset.                                                  *)
(***************************************************************************)
C3_EveryFixupResolved ==
  pc = "ended" => \A operand \in ModuleOffsetOperands : operand.value # kInvalidIstreamOffset

\* A module translated with a call of a later function and a forward branch.
C3_Witness ==
  /\ pc = "ended"
  /\ \E operand \in ModuleOffsetOperands : operand.kind = "Call" /\ operand.value > operand.at
  /\ \E operand \in ModuleOffsetOperands : operand.kind = "Br" /\ operand.value > operand.at

(***************************************************************************)
(* C4.  When EndModule has returned Ok, func_fixups[f] is empty for every  *)
(* defined function f (BeginFunctionBody patches and clears the list) and  *)
(* depth_fixups holds no entry.                                            *)
(***************************************************************************)
C4_NoPendingFixups ==
  pc = "ended" =>
    /\ \A f \in 1..Len(reader.func_fixups) : reader.func_fixups[f] = <<>>
    /\ reader.depth_fixups = <<>>

(***************************************************************************)
(* C5.  Label balance: a label is pushed only by BeginFunctionBody, block, *)
(* loop and if, one label each, and popped only by an end and by           *)
(* EndFunctionBody, one label each; BeginFunctionBody finds the stack      *)
(* empty, and when EndFunctionBody has returned Ok the stack is empty, so  *)
(* that every PushLabel of the body is matched by exactly one PopLabel.    *)
(***************************************************************************)
C5_LabelBalance ==
  [][ LET before == Len(reader.label_stack)
          after == Len(reader.label_stack')
          ok == last'.res = "Ok"
      IN /\ (last'.cb = "BeginFunctionBody" /\ ok) => (before = 0 /\ after = 1)
         /\ (last'.cb \in {"OnBlockExpr", "OnLoopExpr", "OnIfExpr"} /\ ok) => after = before + 1
         /\ (last'.cb = "OnEndExpr" /\ ok) => after = before - 1
         /\ (last'.cb = "EndFunctionBody" /\ ok) => (before = 1 /\ after = 0)
         /\ ( \/ ~ok
              \/ last'.cb \notin {"BeginFunctionBody", "OnBlockExpr", "OnLoopExpr", "OnIfExpr",
                                   "OnEndExpr", "EndFunctionBody"} ) => after = before
    ]_vars

\* The end of a body that held an if.
C5_Witness ==
  /\ last.cb = "EndFunctionBody" /\ last.res = "Ok"
  /\ reader.label_stack = <<>>
  /\ \E operand \in ModuleOffsetOperands : operand.kind = "BrUnless"

(***************************************************************************)
(* C6.  Index monotonicity: the entries of sig_index_mapping, and of the   *)
(* non-import suffixes of func_index_mapping and global_index_mapping, are *)
(* consecutive, and they are the slots at the tail of the environment's    *)
(* signature, function and global sequences (for functions: the slots      *)
(* OnFunction has filled so far and the ones it will fill next).           *)
(***************************************************************************)
Consecutive(v, from) == \A i \in (from + 1)..(Len(v) - 1) : v[i + 1] = v[i] + 1

\* Entry from + j of v is slot first + j - 1.
StartsAt(v, from, first) == \A j \in 1..(Len(v) - from) : v[from + j] = first + (j - 1)

NumDefinedFuncs == Len(reader.func_index_mapping) - reader.num_func_imports

NumDefinedGlobals == Len(reader.global_index_mapping) - reader.num_global_imports

FunctionsDelivered == IF dec.sec = "function" THEN dec.i ELSE NumDefinedFuncs

C6_IndexMonotonicity ==
  pc # "returned" =>
    /\ Consecutive(reader.sig_index_mapping, 0)
    /\ Consecutive(reader.func_index_mapping, reader.num_func_imports)
    /\ Consecutive(reader.global_index_mapping, reader.num_global_imports)
    /\ StartsAt(reader.sig_index_mapping, 0,
                Len(env.sigs) - Len(reader.sig_index_mapping))
    /\ StartsAt(reader.func_index_mapping, reader.num_func_imports,
                Len(env.funcs) - FunctionsDelivered)
    /\ StartsAt(reader.global_index_mapping, reader.num_global_imports,
                Len(env.globals) - NumDefinedGlobals)

C6_Witness ==
  /\ pc = "reading" /\ dec.sec = "global"
  /\ reader.num_func_imports = 1 /\ NumDefinedFuncs = 2 /\ Len(env.funcs) = Len(Env0.funcs) + 3
  /\ reader.num_global_imports = 1 /\ NumDefinedGlobals = 2
  /\ Len(reader.sig_index_mapping) = 2

(***************************************************************************)
(* C7.  At most one table and one memory: once the module's table_index    *)
(* (memory_index) is set, an OnTable or OnImportTable (OnMemory or         *)
(* OnImportMemory) returns Error and appends no table (memory), and the    *)
(* index keeps its value for as long as the module exists.                 *)
(***************************************************************************)
C7_OneTableOneMemory ==
  [][ /\ (TableIndex # kInvalidIndex /\ last'.cb \in {"OnTable", "OnImportTable"})
          => (last'.res = "Error" /\ env'.tables = env.tables)
      /\ (MemoryIndex # kInvalidIndex /\ last'.cb \in {"OnMemory", "OnImportMemory"})
          => (last'.res = "Error" /\ env'.memories = env.memories)
      /\ (TableIndex # kInvalidIndex /\ ModuleAlive') => TableIndex' = TableIndex
      /\ (MemoryIndex # kInvalidIndex /\ ModuleAlive') => MemoryIndex' = MemoryIndex
    ]_vars

C7_Witness ==
  /\ pc = "failed" /\ last.cb = "OnTable" /\ last.res = "Error"
  /\ TableIndex # kInvalidIndex
  /\ errors = << "only one table allowed" >>

(***************************************************************************)
(* C8.  A load, store, current_memory or grow_memory in a module without a *)
(* memory returns Error and emits no byte; in a module with a memory, the  *)
(* memory-index operand it emits, right after the opcode, is the module's  *)
(* memory_index.                                                           *)
(***************************************************************************)
NothingEmitted ==
  reader.istream' = reader.istream /\ reader.istream_offset' = reader.istream_offset

C8_MemoryRequired ==
  [][ last'.cb \in {"OnLoadExpr", "OnStoreExpr", "OnCurrentMemoryExpr", "OnGrowMemoryExpr"} =>
        /\ MemoryIndex = kInvalidIndex => (last'.res = "Error" /\ NothingEmitted)
        /\ (MemoryIndex # kInvalidIndex /\ last'.res = "Ok") =>
             /\ reader.istream_offset' > reader.istream_offset
             /\ ReadI32(reader.istream', reader.istream_offset + 1) = MemoryIndex
    ]_vars

\* A load translated for a module whose own memory is not the
\* environment's first.
C8_Witness ==
  /\ last.cb = "OnLoadExpr" /\ last.res = "Ok"
  /\ MemoryIndex = 1
  /\ ReadI32(reader.istream, reader.istream_offset - 8) = 1

(***************************************************************************)
(* C9.  Alignment: in a module with a memory, a load or store is rejected  *)
(* by CheckAlign exactly when alignment_log2 is 32 or more or              *)
(* 2^alignment_log2 is above the natural alignment of the opcode, so an    *)
(* alignment equal to the natural one is accepted; and when CheckAlign     *)
(* rejects, the callback returns Error and emits nothing.                  *)
(***************************************************************************)
AlignmentRejected ==
  errors' = Append(errors, "alignment must not be larger than natural alignment")

\* 2^alignment_log2 is taken only where it is below 2^31.
AlignmentAllowed(alignment_log2, natural_alignment) ==
  alignment_log2 < 32 /\ alignment_log2 <= 30 /\ 2 ^ alignment_log2 <= natural_alignment

C9_Alignment ==
  [][ (last'.cb \in {"OnLoadExpr", "OnStoreExpr"} /\ MemoryIndex # kInvalidIndex) =>
        /\ AlignmentRejected <=>
             ~AlignmentAllowed(last'.args[2], get_opcode_memory_size(last'.args[1]))
        /\ AlignmentRejected => (last'.res = "Error" /\ NothingEmitted)
    ]_vars

\* A four-byte load with alignment_log2 = 2.
C9_Witness ==
  /\ last.cb = "OnLoadExpr" /\ last.res = "Ok"
  /\ last.args = << "I32Load", 2, 16 >>
  /\ MemoryIndex # kInvalidIndex

(***************************************************************************)
(* C10.  Data segment bounds: with an i32 offset, OnDataSegmentData        *)
(* returns Ok exactly when address + size, computed without wrapping, is   *)
(* at most the length of the memory's data: a segment ending at the length *)
(* is accepted, one ending one byte later is rejected, and a segment of    *)
(* size 0 at an address above the length is rejected.                      *)
(***************************************************************************)
MemoryLength == At(env.memories, MemoryIndex).size

\* address is a 32-bit pattern: below 0 it stands for 2^31 or more.
FitsMemory(address, size, length) == address >= 0 /\ address <= length /\ size <= length - address

C10_DataSegmentBounds ==
  (last.cb = "OnDataSegmentData" /\ reader.init_expr_value.type = "i32") =>
    (last.res = "Ok" <=> FitsMemory(reader.init_expr_value.value, last.args[3], MemoryLength))

\* A segment of two bytes that ends at the memory's last byte.
C10_Witness ==
  /\ last.cb = "OnDataSegmentData" /\ last.res = "Ok"
  /\ reader.init_expr_value = TypedValue("i32", WABT_PAGE_SIZE - 1)
  /\ last.args[3] = 1 /\ MemoryLength = WABT_PAGE_SIZE

(***************************************************************************)
(* C11.  An element segment whose offset equals the table's length is      *)
(* rejected: once EndElemSegmentInitExpr has accepted such an offset, no   *)
(* callback returns Ok any more, and the table is left unchanged.          *)
(***************************************************************************)
TableLength == Len(At(env.tables, TableIndex).func_indexes)

OffsetAtTableLength ==
  /\ pc = "reading"
  /\ last.cb = "EndElemSegmentInitExpr" /\ last.res = "Ok"
  /\ reader.table_offset = TableLength

C11_OffsetAtLengthRejected ==
  [][ OffsetAtTableLength => (last'.res = "Error" /\ env'.tables = env.tables) ]_vars

(***************************************************************************)
(* C11, amended.  An element segment with at least one function index      *)
(* whose offset equals the table's length is rejected: its first           *)
(* OnElemSegmentFunctionIndex returns Error, records nothing and changes   *)
(* no table, and the translation then returns Error with every table as it *)
(* was before the translation.                                             *)
(***************************************************************************)
C11_NonEmptyAtLengthRejected ==
  [][ /\ (OffsetAtTableLength /\ last'.cb = "OnElemSegmentFunctionIndex") =>
           /\ last'.res = "Error" /\ pc' = "failed"
           /\ env'.tables = env.tables
           /\ reader'.elem_segment_infos = reader.elem_segment_infos
      /\ pc = "failed" => (pc' = "returned" /\ last'.res = "Error" /\ TablesUntouched')
    ]_vars

\* The first function index of a segment placed at the end of the table.
C11_Witness ==
  /\ pc = "failed" /\ last.cb = "OnElemSegmentFunctionIndex"
  /\ reader.table_offset = TableLength
  /\ errors = << "elem segment offset is out of bounds" >>

(***************************************************************************)
(* C12.  Every diagnostic is fatal: a callback during which the translator *)
(* reports a diagnostic to the error handler returns Error, the duplicate  *)
(* export found when a host import is exported automatically included.     *)
(***************************************************************************)
C12_DiagnosticsAreFatal ==
  [][ errors' # errors => last'.res = "Error" ]_vars

(***************************************************************************)
(* C13.  Once the error handler has been invoked during a translation, by  *)
(* OnError or by a diagnostic of the translator, the next callback the     *)
(* translator receives returns Error.                                      *)
(***************************************************************************)
C13_ErrorIsSticky ==
  [][ (errors # <<>> /\ last'.cb # "return") => last'.res = "Error" ]_vars

(***************************************************************************)
(* C15.  Translating an empty module, EndModule being its only callback,   *)
(* succeeds; it leaves the environment's signatures, functions, tables,    *)
(* memories, globals and istream bytes as they were, and appends one       *)
(* module entry with istream_start = istream_end and without imports or    *)
(* exports, which is the module handed back.                               *)
(***************************************************************************)
NoCallbackButEndModule == dec.sec = "none" /\ errors = <<>>

EmptyModuleEntry ==
  LET module == At(env.modules, Len(Env0.modules))
  IN /\ Len(env.modules) = Len(Env0.modules) + 1
     /\ SubSeq(env.modules, 1, Len(Env0.modules)) = Env0.modules
     /\ ~module.is_host
     /\ module.imports = <<>> /\ module.exports = <<>>
     /\ module.export_bindings = NoBindings
     /\ module.istream_start = module.istream_end
     /\ module.istream_start = Len(Env0.istream)

C15_EmptyModule ==
  /\ (NoCallbackButEndModule /\ pc = "ended") => last.res = "Ok"
  /\ (NoCallbackButEndModule /\ pc = "returned") =>
       /\ last.res = "Ok"
       /\ out_module = Len(Env0.modules)
       /\ env.sigs = Env0.sigs /\ env.funcs = Env0.funcs
       /\ env.tables = Env0.tables /\ env.memories = Env0.memories
       /\ env.globals = Env0.globals
       /\ env.istream = Env0.istream
       /\ EmptyModuleEntry

C15_Witness ==
  /\ NoCallbackButEndModule /\ pc = "returned"
  /\ Len(env.modules) = Len(Env0.modules) + 1

(***************************************************************************)
(* C16.  Export uniqueness: after any sequence of OnExport calls the names *)
(* in module.exports are pairwise distinct and export_bindings maps each   *)
(* name to the position of its export; an OnExport whose name is already   *)
(* bound returns Error and leaves module.exports and export_bindings as    *)
(* they were.                                                              *)
(***************************************************************************)
ModuleExports == At(env.modules, reader.module).exports

ModuleExportBindings == At(env.modules, reader.module).export_bindings

ExportsAreUnique ==
  ModuleAlive =>
    /\ \A i, j \in 1..Len(ModuleExports) :
         ModuleExports[i].name = ModuleExports[j].name => i = j
    /\ DOMAIN ModuleExportBindings = { ModuleExports[i].name : i \in 1..Len(ModuleExports) }
    /\ \A i \in 1..Len(ModuleExports) : ModuleExportBindings[ModuleExports[i].name] = i - 1

C16_ExportUniqueness ==
  [][ /\ ExportsAreUnique'
      /\ (last'.cb = "OnExport" /\ last'.args[4] \in DOMAIN ModuleExportBindings) =>
           /\ last'.res = "Error"
           /\ ModuleExports' = ModuleExports
           /\ ModuleExportBindings' = ModuleExportBindings
    ]_vars

\* A second export under the name of the first.
C16_Witness ==
  /\ pc = "failed" /\ last.cb = "OnExport"
  /\ errors = << "duplicate export" >>
  /\ Len(ModuleExports) = 1 /\ ModuleExports[1].name = last.args[4]

(***************************************************************************)
(* C17.  An OnExport of kind global whose target global is mutable returns *)
(* Error and appends no export, and after the translation has failed the   *)
(* module being translated is not in the environment.                      *)
(***************************************************************************)
ExportedGlobalIsMutable(item_index) ==
  At(env.globals, At(reader.global_index_mapping, item_index)).mutable_

C17_MutableGlobalExport ==
  [][ /\ ( /\ last'.cb = "OnExport" /\ last'.args[2] = "global"
           /\ ExportedGlobalIsMutable(last'.args[3]) ) =>
           /\ last'.res = "Error" /\ pc' = "failed"
           /\ ModuleExports' = ModuleExports
           /\ ModuleExportBindings' = ModuleExportBindings
      /\ pc = "failed" =>
           /\ pc' = "returned" /\ last'.res = "Error"
           /\ env'.modules = Env0.modules
           /\ out_module' = "null"
    ]_vars

\* A translation that failed on the export of a mutable global.
C17_Witness ==
  /\ pc = "returned" /\ last.res = "Error"
  /\ errors = << "mutable globals cannot be exported" >>
  /\ env.modules = Env0.modules

(***************************************************************************)
(* C18.  A get_global initializer is accepted only when the global index   *)
(* is below num_global_imports and the global it names is immutable;       *)
(* otherwise OnInitExprGetGlobalExpr returns Error and leaves              *)
(* init_expr_value as it was.  When accepted, init_expr_value becomes the  *)
(* typed value of the global named.                                        *)
(***************************************************************************)
ReferencedGlobal(global_index) ==
  At(env.globals, At(reader.global_index_mapping, global_index))

GetGlobalAllowed(global_index) ==
  /\ global_index < reader.num_global_imports
  /\ ~ReferencedGlobal(global_index).mutable_

C18_GetGlobalInitializer ==
  [][ last'.cb = "OnInitExprGetGlobalExpr" =>
        LET global_index == last'.args[1]
        IN /\ last'.res = "Ok" <=> GetGlobalAllowed(global_index)
           /\ ~GetGlobalAllowed(global_index) =>
                reader'.init_expr_value = reader.init_expr_value
           /\ GetGlobalAllowed(global_index) =>
                reader'.init_expr_value = ReferencedGlobal(global_index).typed_value
    ]_vars

\* The initializer of a global read from the imported immutable global.
C18_Witness ==
  /\ last.cb = "OnInitExprGetGlobalExpr" /\ last.res = "Ok"
  /\ dec.sec = "global"
  /\ reader.num_global_imports = 2
  /\ reader.init_expr_value = TypedValue("i32", 7)

(***************************************************************************)
(* C19.  Initializer types: EndGlobalInitExpr stores the initializer value *)
(* in the global exactly when its type is the global's declared type, and  *)
(* otherwise returns Error and leaves the globals as they were; an element *)
(* segment offset or a data segment offset whose type is not i32 makes     *)
(* EndElemSegmentInitExpr or OnDataSegmentData return Error and record no  *)
(* deferred write.                                                         *)
(***************************************************************************)
C19_InitializerTypes ==
  [][ /\ last'.cb = "EndGlobalInitExpr" =>
           LET g == At(reader.global_index_mapping, last'.args[1])
               matches == reader.init_expr_value.type = At(env.globals, g).typed_value.type
           IN /\ last'.res = "Ok" <=> matches
              /\ matches => At(env'.globals, g).typed_value = reader.init_expr_value
              /\ ~matches => env'.globals = env.globals
      /\ ( /\ last'.cb \in {"EndElemSegmentInitExpr", "OnDataSegmentData"}
           /\ reader.init_expr_value.type # "i32" ) =>
           /\ last'.res = "Error"
           /\ reader'.elem_segment_infos = reader.elem_segment_infos
           /\ reader'.data_segment_infos = reader.data_segment_infos
           /\ reader'.table_offset = reader.table_offset
    ]_vars

\* A global declared i32 whose initializer is an i64 constant.
C19_Witness ==
  /\ pc = "failed" /\ last.cb = "EndGlobalInitExpr"
  /\ reader.init_expr_value.type = "i64"
  /\ At(env.globals, At(reader.global_index_mapping, last.args[1])).typed_value.type = "i32"
  /\ errors = << "type mismatch in global" >>

(***************************************************************************)
(* C20.  Imports resolved against a registered module that is not a host   *)
(* module.  OnImport returns Error for a module name that is not           *)
(* registered and for a field the module does not export; OnImportFunc,    *)
(* OnImportTable, OnImportMemory and OnImportGlobal return Error when the  *)
(* export found is of another kind, and OnImportFunc when its signature    *)
(* differs from the declared one.  In each case the index mappings and the *)
(* import counters are not extended, and after the translation has failed  *)
(* the environment is as it was before the call.                           *)
(***************************************************************************)
ImportKindOf ==
  [cb \in {"OnImportFunc", "OnImportTable", "OnImportMemory", "OnImportGlobal"} |->
     CASE cb = "OnImportFunc" -> "func" [] cb = "OnImportTable" -> "table"
       [] cb = "OnImportMemory" -> "memory" [] cb = "OnImportGlobal" -> "global"]

MappingsNotExtended ==
  /\ reader'.func_index_mapping = reader.func_index_mapping
  /\ reader'.global_index_mapping = reader.global_index_mapping
  /\ reader'.num_func_imports = reader.num_func_imports
  /\ reader'.num_global_imports = reader.num_global_imports
  /\ TableIndex' = TableIndex /\ MemoryIndex' = MemoryIndex

UnknownImport(module_name, field_name) ==
  \/ module_name \notin DOMAIN registered_module_bindings
  \/ LET module == At(env.modules, registered_module_bindings[module_name])
     IN ~module.is_host /\ field_name \notin DOMAIN module.export_bindings

\* The import being resolved names an export of a module that is not a host
\* module, and the export does not fit the declaration of callback cb.
MismatchedImport(cb, args) ==
  LET import == At(At(env.modules, reader.module).imports, args[1])
  IN /\ ~reader.is_host_import
     /\ \/ import.kind # ImportKindOf[cb]
        \/ /\ cb = "OnImportFunc"
           /\ At(env.sigs, At(reader.sig_index_mapping, args[2]))
                # At(env.sigs, At(env.funcs, reader.import_env_index).sig_index)

ImportRejections ==
  { "unknown import module", "unknown module field",
    "expected import to have another kind", "import signature mismatch" }

C20_ImportsAreRejected ==
  /\ (last'.cb = "OnImport" /\ UnknownImport(last'.args[2], last'.args[3])) =>
       (last'.res = "Error" /\ MappingsNotExtended)
  /\ (last'.cb \in DOMAIN ImportKindOf /\ MismatchedImport(last'.cb, last'.args)) =>
       (last'.res = "Error" /\ MappingsNotExtended)

C20_ImportResolution ==
  [][ /\ C20_ImportsAreRejected
      /\ (pc = "failed" /\ errors[Len(errors)] \in ImportRejections) =>
           (pc' = "returned" /\ last'.res = "Error" /\ env' = Env0)
    ]_vars

(***************************************************************************)
(* C21.  Import limits: the limits check of a table or memory import, host *)
(* or not, passes exactly when the actual initial size is at least the     *)
(* declared one and, if a maximum is declared, the actual limits have a    *)
(* maximum that is not larger; table_index / memory_index is set only      *)
(* after the check has passed, and then refers to the checked object.      *)
(***************************************************************************)
LimitsFit(declared, actual) ==
  /\ actual.initial >= declared.initial
  /\ ~declared.has_max \/ (actual.has_max /\ actual.max <= declared.max)

LimitsRejections ==
  { "actual size smaller than declared", "max size (unspecified) larger than declared",
    "max size larger than declared" }

\* The limits the check of this import compares the declared ones with:
\* those of the object the host delegate has filled in, or those of the
\* export the import resolves to.
ActualTableLimits ==
  IF reader.is_host_import THEN env'.tables[Len(env'.tables)].limits
  ELSE At(env.tables, reader.import_env_index).limits

ActualMemoryLimits ==
  IF reader.is_host_import THEN env'.memories[Len(env'.memories)].page_limits
  ELSE At(env.memories, reader.import_env_index).page_limits

RejectedByLimits == errors' # errors /\ errors'[Len(errors')] \in LimitsRejections

C21_TableImport ==
  (InItem("import", "named") /\ last'.cb = "OnImportTable") =>
    /\ last'.res = "Ok" =>
         /\ LimitsFit(last'.args[2], ActualTableLimits)
         /\ TableIndex' # kInvalidIndex
         /\ At(env'.tables, TableIndex').limits = ActualTableLimits
    /\ (last'.res = "Error" /\ RejectedByLimits) =>
         /\ ~LimitsFit(last'.args[2], ActualTableLimits)
         /\ TableIndex' = kInvalidIndex
    /\ (last'.res = "Error" /\ ~RejectedByLimits) => TableIndex' = TableIndex

C21_MemoryImport ==
  (InItem("import", "named") /\ last'.cb = "OnImportMemory") =>
    /\ last'.res = "Ok" =>
         /\ LimitsFit(last'.args[2], ActualMemoryLimits)
         /\ MemoryIndex' # kInvalidIndex
         /\ At(env'.memories, MemoryIndex').page_limits = ActualMemoryLimits
    /\ (last'.res = "Error" /\ RejectedByLimits) =>
         /\ ~LimitsFit(last'.args[2], ActualMemoryLimits)
         /\ MemoryIndex' = kInvalidIndex
    /\ (last'.res = "Error" /\ ~RejectedByLimits) => MemoryIndex' = MemoryIndex

C21_ImportLimits == [][C21_TableImport /\ C21_MemoryImport]_vars

\* A host table import with a declared maximum has passed the check, after
\* a memory import of the same module has passed it too.
C21_Witness ==
  /\ pc = "reading" /\ last.cb = "OnImportTable" /\ last.res = "Ok"
  /\ reader.is_host_import /\ last.args[2].has_max
  /\ TableIndex = Len(env.tables) - 1
  /\ MemoryIndex # kInvalidIndex

(***************************************************************************)
(* C22.  Host import: whenever OnImportFunc/Table/Memory/Global returns Ok *)
(* for an import from a host module, a fresh entry has been appended to    *)
(* the corresponding environment sequence, the module's mapping (or        *)
(* table_index / memory_index) refers to that fresh entry, and the host    *)
(* module has an export named field_name whose kind and index identify     *)
(* that same fresh entry.                                                  *)
(***************************************************************************)
EnvSequence(e, kind) ==
  CASE kind = "func" -> e.funcs [] kind = "table" -> e.tables
    [] kind = "memory" -> e.memories [] kind = "global" -> e.globals

\* The fresh entry is the one appended by this callback, and the module
\* refers to it.
FreshEntryMapped(kind, fresh) ==
  /\ Len(EnvSequence(env', kind)) = Len(EnvSequence(env, kind)) + 1
  /\ fresh = Len(EnvSequence(env, kind))
  /\ CASE kind = "func" ->
            /\ reader'.func_index_mapping = Append(reader.func_index_mapping, fresh)
            /\ At(env'.funcs, fresh).is_host
       [] kind = "global" ->
            reader'.global_index_mapping = Append(reader.global_index_mapping, fresh)
       [] kind = "table" -> TableIndex' = fresh
       [] kind = "memory" -> MemoryIndex' = fresh

HostExportIdentifies(field_name, kind, fresh) ==
  LET found == get_export_by_name(At(env'.modules, reader.host_import_module), field_name)
  IN /\ found.found
     /\ found.export.name = field_name
     /\ found.export.kind = kind
     /\ found.export.index = fresh

C22_HostImportStep ==
  (/\ InItem("import", "named") /\ reader.is_host_import
   /\ last'.cb \in DOMAIN ImportKindOf /\ last'.res = "Ok") =>
    LET kind == ImportKindOf[last'.cb]
        fresh == Len(EnvSequence(env', kind)) - 1
        field_name == At(At(env.modules, reader.module).imports, last'.args[1]).field_name
    IN /\ FreshEntryMapped(kind, fresh)
       /\ HostExportIdentifies(field_name, kind, fresh)

C22_HostImport == [][C22_HostImportStep]_vars

(***************************************************************************)
(* C23.  Istream ownership and module range: while the module is decoded   *)
(* the environment holds no instruction stream (the translator owns it),   *)
(* and it is back in the environment when read_binary_interpreter has      *)
(* returned, on success and on failure.  On success the module's           *)
(* istream_start is the length of the stream before the call, istream_end  *)
(* is the final write cursor and the length of the stream, and             *)
(* istream_start <= istream_end; on failure the stream has the length it   *)
(* had before the call.                                                    *)
(***************************************************************************)
PreCallIstreamSize == Len(Env0.istream)

C23_IstreamOwnership ==
  /\ pc # "returned" =>
       /\ env.istream = NullIstream
       /\ reader.owns_istream /\ Len(reader.istream) >= PreCallIstreamSize
  /\ pc = "returned" =>
       /\ ~reader.owns_istream /\ reader.istream = NullIstream
       /\ env.istream # NullIstream
       /\ last.res = "Ok" =>
            LET module == At(env.modules, out_module)
            IN /\ module.istream_start = PreCallIstreamSize
               /\ module.istream_end = reader.istream_offset
               /\ module.istream_end = Len(env.istream)
               /\ module.istream_start <= module.istream_end
       /\ last.res = "Error" =>
            /\ out_module = "null"
            /\ Len(env.istream) = PreCallIstreamSize

\* A translation that has written function bodies has returned Ok.
C23_Witness ==
  /\ pc = "returned" /\ last.res = "Ok"
  /\ Len(env.istream) > PreCallIstreamSize
  /\ At(env.modules, out_module).istream_end > At(env.modules, out_module).istream_start

(***************************************************************************)
(* C24.  Identity function scenario: translating one function of type      *)
(* [i32] -> [i32] with no local declarations and body `get_local 0; end`   *)
(* emits, starting at the function's entry offset, Alloca with operand 0,  *)
(* then GetLocal with translated index 1, then DropKeep with drop = 1 and  *)
(* keep = 1, then Return.                                                  *)
(***************************************************************************)
\* The body read so far is `get_local 0`, in a function [i32] -> [i32]
\* without local declarations.
IdentityBodyRead ==
  /\ InItem("code", "body") /\ dec.c = 1
  /\ last = [cb |-> "OnGetLocalExpr", args |-> <<0>>, res |-> "Ok"]
  /\ CurrentFunc(Cur).local_decl_count = 0
  /\ At(env.sigs, CurrentFunc(Cur).sig_index) = FuncSignature(<<"i32">>, <<"i32">>)

\* The bytes written from the entry offset of function func to the cursor.
EmittedFrom(e, r, func) == SubSeq(r.istream, At(e.funcs, func).offset + 1, r.istream_offset)

IdentityEmits(code) ==
  (IdentityBodyRead /\ last'.cb = "EndFunctionBody") =>
    /\ last'.res = "Ok"
    /\ EmittedFrom(env', reader', reader.current_func) = code

GetLocalDropKeepReturn ==
  << Opcode.GetLocal >> \o I32Bytes(1) \o << Opcode.DropKeep >> \o I32Bytes(1) \o << 1 >>
    \o << Opcode.Return >>

C24_IdentityFunction ==
  [][IdentityEmits(<< Opcode.Alloca >> \o I32Bytes(0) \o GetLocalDropKeepReturn)]_vars

\* C24 as amended: the same scenario emits, starting at the function's
\* entry offset, GetLocal with translated index 1, then DropKeep with
\* drop = 1 and keep = 1, then Return, and no Alloca.
C24_IdentityFunctionNoAlloca == [][IdentityEmits(GetLocalDropKeepReturn)]_vars

\* The identity function has been translated.
C24_Witness ==
  /\ pc = "reading" /\ last.cb = "EndFunctionBody" /\ last.res = "Ok" /\ dec.c = 1
  /\ At(env.funcs, At(reader.func_index_mapping, 0)).local_decl_count = 0
  /\ EmittedFrom(env, reader, At(reader.func_index_mapping, 0)) = GetLocalDropKeepReturn

(***************************************************************************)
(* C25.  Forward branch resolution: every br, br_if and br_table entry     *)
(* that targets a block, an if/else or the function label has its 4-byte   *)
(* target patched to the istream offset current when that label's end      *)
(* (OnEndExpr or EndFunctionBody) is processed; a fixup recorded for one   *)
(* label is never applied at the end of another label, a later sibling at  *)
(* the same depth included.  Stated step by step: a branch records its     *)
(* operand under the label it targets and leaves the sentinel there; the   *)
(* sentinel stays until the end of that very label, which writes the       *)
(* offset current at that moment and forgets the fixup; a label is pushed  *)
(* with no fixup recorded at its depth; a resolved target never changes.   *)
(***************************************************************************)
\* The fixups pending in r: the label each was recorded for (counted from
\* the function label, 0) and the place of the operand.
PendingFixups(r) ==
  UNION { { [depth |-> d - 1, at |-> r.depth_fixups[d][k]] : k \in 1..Len(r.depth_fixups[d]) } :
          d \in 1..Len(r.depth_fixups) }

\* The offset operands of kind `kind` this step has emitted.
EmittedOperands(kind) ==
  { operand \in OffsetOperands(reader'.istream, reader.istream_offset, reader'.istream_offset) :
      operand.kind = kind }

\* The fixup a branch operand needs when it targets the label at `depth`
\* from the top: none for a loop, whose offset is known.
FixupFor(operand, depth) ==
  IF GetLabel(Cur, depth).offset = kInvalidIstreamOffset
  THEN { [depth |-> (Len(reader.label_stack) - 1) - depth, at |-> operand.at] }
  ELSE {}

TargetEmitted(operand, depth) == operand.value = GetLabel(Cur, depth).offset

BranchRecorded ==
  LET brs == EmittedOperands("Br")
      depth == last'.args[1]
  IN /\ Cardinality(brs) = 1
     /\ \A br \in brs :
          /\ TargetEmitted(br, depth)
          /\ PendingFixups(reader') = PendingFixups(reader) \cup FixupFor(br, depth)

BrTableRecorded ==
  LET entries == EmittedOperands("BrTableEntry")
      depths == Append(last'.args[1], last'.args[2])
      DepthOf(entry) == depths[Cardinality({ e \in entries : e.at < entry.at }) + 1]
  IN /\ Cardinality(entries) = Len(depths)
     /\ \A entry \in entries : TargetEmitted(entry, DepthOf(entry))
     /\ PendingFixups(reader') =
          PendingFixups(reader) \cup UNION { FixupFor(entry, DepthOf(entry)) : entry \in entries }

LabelEndResolves ==
  LET top == Len(reader.label_stack) - 1
  IN /\ \A fixup \in PendingFixups(reader) :
          ReadI32(reader'.istream, fixup.at) =
            IF fixup.depth = top THEN reader.istream_offset ELSE kInvalidIstreamOffset
     /\ PendingFixups(reader') = { fixup \in PendingFixups(reader) : fixup.depth < top }

PendingUntouched ==
  /\ PendingFixups(reader') = PendingFixups(reader)
  /\ \A fixup \in PendingFixups(reader) :
       ReadI32(reader'.istream, fixup.at) = kInvalidIstreamOffset

ResolvedTargetsKept ==
  \A operand \in ModuleOffsetOperands :
    (operand.kind \in {"Br", "BrTableEntry"} /\ operand.value # kInvalidIstreamOffset) =>
      ReadI32(reader'.istream, operand.at) = operand.value

C25_Step ==
  (pc = "reading" /\ pc' = "reading" /\ dec.sec = "code") =>
    /\ CASE last'.cb \in {"OnBrExpr", "OnBrIfExpr"} -> BranchRecorded
         [] last'.cb = "OnBrTableExpr" -> BrTableRecorded
         [] last'.cb \in {"OnEndExpr", "EndFunctionBody"} -> LabelEndResolves
         [] last'.cb = "BeginFunctionBody" ->
              PendingFixups(reader) = {} /\ PendingFixups(reader') = {}
         [] OTHER -> PendingUntouched
    /\ last'.cb \in {"OnBlockExpr", "OnLoopExpr", "OnIfExpr"} =>
         \A fixup \in PendingFixups(reader') : fixup.depth < Len(reader.label_stack)
    /\ \A fixup \in PendingFixups(reader') : fixup.depth < Len(reader'.label_stack)
    /\ ResolvedTargetsKept

C25_ForwardBranches == [][C25_Step]_vars

\* The end of the second of two sibling blocks, each left by a br 0: the
\* two branches have different targets, each the end of its own block.
C25_Witness ==
  /\ pc = "reading" /\ last.cb = "OnEndExpr" /\ last.res = "Ok"
  /\ PendingFixups(reader) = {}
  /\ \E first, second \in ModuleOffsetOperands :
       /\ first.kind = "Br" /\ second.kind = "Br" /\ first.at < second.at
       /\ first.value > first.at /\ first.value < second.at
       /\ second.value = reader.istream_offset

(***************************************************************************)
(* C26.  Call target resolution: after a successful translation every Call *)
(* operand equals its callee's entry offset (the istream offset at the     *)
(* callee's BeginFunctionBody), whether the callee's body came before,     *)
(* comes after, or is the caller's own; a forward call is recorded in      *)
(* func_fixups[callee] and patched at the callee's BeginFunctionBody; a    *)
(* call of a host function emits CallHost with the environment's function  *)
(* index.                                                                  *)
(***************************************************************************)
\* The environment's function behind the module's defined function d.
DefinedFuncOf(e, r, d) == At(e.funcs, At(r.func_index_mapping, r.num_func_imports + d))

\* Every operand recorded for a defined function holds the sentinel until
\* the function's body begins, and the function's entry offset from then on.
RecordedCallsHoldEntry(e, r) ==
  \A d \in 0..(Len(r.func_fixups) - 1) : \A k \in 1..Len(r.func_fixups[d + 1]) :
    ReadI32(r.istream, r.func_fixups[d + 1][k]) = DefinedFuncOf(e, r, d).offset

CallEmitted ==
  LET func_index == last'.args[1]
      env_index == TranslateFuncIndexToEnv(Cur, func_index)
      func == GetFuncByEnvIndex(Cur, env_index)
      emitted == SubSeq(reader'.istream, reader.istream_offset + 1, reader'.istream_offset)
      defined_index == func_index - reader.num_func_imports
  IN IF func.is_host
     THEN /\ emitted = << Opcode.CallHost >> \o I32Bytes(env_index)
          /\ reader'.func_fixups = reader.func_fixups
     ELSE /\ emitted = << Opcode.Call >> \o I32Bytes(func.offset)
          /\ reader'.func_fixups =
               IF func.offset = kInvalidIstreamOffset
               THEN AppendFixup(reader.func_fixups, defined_index, reader.istream_offset + 1)
               ELSE reader.func_fixups

BodyBegun ==
  LET env_index == TranslateFuncIndexToEnv(Cur, last'.args[1])
  IN /\ At(env.funcs, env_index).offset = kInvalidIstreamOffset
     /\ At(env'.funcs, env_index).offset = reader.istream_offset
     /\ reader'.func_fixups = reader.func_fixups

EntryOffsetsKept ==
  \A f \in 1..Len(env.funcs) :
    (~env.funcs[f].is_host /\ env.funcs[f].offset # kInvalidIstreamOffset) =>
      env'.funcs[f].offset = env.funcs[f].offset

ResolvedCallsKept ==
  \A operand \in ModuleOffsetOperands :
    (operand.kind = "Call" /\ operand.value # kInvalidIstreamOffset) =>
      ReadI32(reader'.istream, operand.at) = operand.value

C26_Step ==
  (pc = "reading" /\ pc' = "reading" /\ dec.sec = "code") =>
    /\ CASE last'.cb = "OnCallExpr" -> CallEmitted
         [] last'.cb = "BeginFunctionBody" -> BodyBegun
         [] OTHER -> reader'.func_fixups = reader.func_fixups
    /\ EntryOffsetsKept
    /\ ResolvedCallsKept
    /\ RecordedCallsHoldEntry(env, reader) /\ RecordedCallsHoldEntry(env', reader')

\* After a successful translation every function has its entry offset and
\* no Call operand holds the sentinel.
CallsResolvedAtEnd ==
  (pc = "reading" /\ pc' = "ended" /\ dec.sec = "code") =>
    /\ \A d \in 0..(dec.n - 1) : DefinedFuncOf(env', reader', d).offset # kInvalidIstreamOffset
    /\ RecordedCallsHoldEntry(env', reader')
    /\ \A operand \in ModuleOffsetOperands :
         operand.kind = "Call" =>
           \E d \in 0..(dec.n - 1) : operand.value = DefinedFuncOf(env', reader', d).offset

C26_CallTargets == [][C26_Step /\ CallsResolvedAtEnd]_vars

\* A module translated with a call of the second function in the first
\* body and a call of the first function in the second body.
C26_Witness ==
  /\ pc = "ended" /\ dec.sec = "code" /\ dec.n = 2
  /\ \E forward, backward \in ModuleOffsetOperands :
       /\ forward.kind = "Call" /\ backward.kind = "Call"
       /\ forward.value = DefinedFuncOf(env, reader, 1).offset /\ forward.value > forward.at
       /\ backward.value = DefinedFuncOf(env, reader, 0).offset /\ backward.value < backward.at
       /\ forward.at \in { reader.func_fixups[2][k] : k \in 1..Len(reader.func_fixups[2]) }

(***************************************************************************)
(* C27.  If/else patching: the BrUnless operand emitted at `if` is patched *)
(* to the first byte of the else arm, which is the offset right after the  *)
(* 4-byte operand of the Br emitted at `else`; that Br's operand is        *)
(* patched to the offset current at `end`; for an `if ... end` without     *)
(* else the BrUnless operand is patched to the offset current at `end`.    *)
(* Each operand is patched exactly once.                                   *)
(***************************************************************************)
EmittedBytes == SubSeq(reader'.istream, reader.istream_offset + 1, reader'.istream_offset)

SentinelOperand(opcode) == << Opcode[opcode] >> \o I32Bytes(kInvalidIstreamOffset)

\* The operands of the open ifs that wait for their patch: each holds the
\* sentinel, and is the operand of a BrUnless (if arm) or of a Br (else arm).
OpenIfOperands(r) ==
  { r.label_stack[k].fixup_offset : k \in { j \in 1..Len(r.label_stack) :
                                            r.label_stack[j].fixup_offset # kInvalidIstreamOffset } }

OpenIfOperandsPending(r) ==
  \A at \in OpenIfOperands(r) :
    /\ ReadI32(r.istream, at) = kInvalidIstreamOffset
    /\ r.istream[at] \in { Opcode.BrUnless, Opcode.Br }

IfEmitted ==
  /\ EmittedBytes = SentinelOperand("BrUnless")
  /\ TopLabel([r |-> reader']).fixup_offset = reader.istream_offset + 1

ElseEmitted ==
  LET cond == TopLabel(Cur).fixup_offset
  IN /\ EmittedBytes = SentinelOperand("Br")
     /\ reader.istream[cond] = Opcode.BrUnless
     /\ ReadI32(reader.istream, cond) = kInvalidIstreamOffset
     /\ ReadI32(reader'.istream, cond) = reader'.istream_offset
     /\ TopLabel([r |-> reader']).fixup_offset = reader.istream_offset + 1
     /\ reader'.istream_offset = (reader.istream_offset + 1) + 4

IfEnded ==
  LET label_type == TcLabel(reader.typechecker, 0).label_type
      at == TopLabel(Cur).fixup_offset
  IN IF label_type \in {"If", "Else"}
     THEN /\ reader.istream[at] = (IF label_type = "If" THEN Opcode.BrUnless ELSE Opcode.Br)
          /\ ReadI32(reader.istream, at) = kInvalidIstreamOffset
          /\ ReadI32(reader'.istream, at) = reader.istream_offset
     ELSE TopLabel(Cur).fixup_offset = kInvalidIstreamOffset

\* A patched operand of a BrUnless is not written again.
ResolvedConditionsKept ==
  \A operand \in ModuleOffsetOperands :
    (operand.kind = "BrUnless" /\ operand.value # kInvalidIstreamOffset) =>
      ReadI32(reader'.istream, operand.at) = operand.value

C27_Step ==
  (pc = "reading" /\ pc' = "reading" /\ dec.sec = "code") =>
    /\ last'.cb = "OnIfExpr" => IfEmitted
    /\ last'.cb = "OnElseExpr" => ElseEmitted
    /\ last'.cb = "OnEndExpr" => IfEnded
    /\ last'.cb \notin {"OnElseExpr", "OnEndExpr"} =>
         \A at \in OpenIfOperands(reader) : at \in OpenIfOperands(reader')
    /\ OpenIfOperandsPending(reader) /\ OpenIfOperandsPending(reader')
    /\ ResolvedConditionsKept
    /\ ResolvedTargetsKept

C27_IfElsePatching == [][C27_Step]_vars

\* The end of an if with an else arm, the then arm an i32.const: the
\* BrUnless leads to the byte after the operand of the else's Br, and that
\* Br to the end.
C27_Witness ==
  /\ pc = "reading" /\ last.cb = "OnEndExpr" /\ last.res = "Ok"
  /\ \E cond, skip \in ModuleOffsetOperands :
       /\ cond.kind = "BrUnless" /\ skip.kind = "Br"
       /\ reader.istream[cond.at + 5] = Opcode.I32Const
       /\ cond.value = skip.at + 4
       /\ skip.value = reader.istream_offset

(***************************************************************************)
(* C28.  Branch to a loop: the target emitted for a branch to a loop label *)
(* is the istream offset recorded when the loop's label was pushed, which  *)
(* is not greater than the branch's own offset; the branch records no      *)
(* depth_fixups entry and its operand is never patched later.              *)
(***************************************************************************)
TargetsLoop(depth) == TcLabel(reader.typechecker, depth).label_type = "Loop"

\* The depths of the branch this step has translated, one per operand, in
\* the order of the operands.
BranchDepths ==
  IF last'.cb = "OnBrTableExpr" THEN Append(last'.args[1], last'.args[2]) ELSE << last'.args[1] >>

BranchOperands ==
  EmittedOperands(IF last'.cb = "OnBrTableExpr" THEN "BrTableEntry" ELSE "Br")

LoopBranchEmitted ==
  \A operand \in BranchOperands :
    LET depth == BranchDepths[Cardinality({ o \in BranchOperands : o.at < operand.at }) + 1]
    IN TargetsLoop(depth) =>
         /\ operand.value = GetLabel(Cur, depth).offset
         /\ operand.value # kInvalidIstreamOffset
         /\ operand.value <= reader.istream_offset
         /\ \A fixup \in PendingFixups(reader') : fixup.at # operand.at

\* The offset of a label is the one it was pushed with.
LabelOffsetsKept ==
  \A k \in 1..Len(reader.label_stack) :
    k <= Len(reader'.label_stack) => reader'.label_stack[k].offset = reader.label_stack[k].offset

C28_Step ==
  (pc = "reading" /\ pc' = "reading" /\ dec.sec = "code") =>
    /\ last'.cb = "OnLoopExpr" =>
         /\ Len(reader'.label_stack) = Len(reader.label_stack) + 1
         /\ TopLabel([r |-> reader']).offset = reader.istream_offset
         /\ TcLabel(reader'.typechecker, 0).label_type = "Loop"
    /\ last'.cb \in {"OnBrExpr", "OnBrIfExpr", "OnBrTableExpr"} => LoopBranchEmitted
    /\ last'.cb # "BeginFunctionBody" => LabelOffsetsKept
    /\ ResolvedTargetsKept

C28_LoopBranches == [][C28_Step]_vars

\* A br to the enclosing loop: its operand is the loop's offset, behind the
\* branch, and nothing is pending.
C28_Witness ==
  /\ pc = "reading" /\ last.cb = "OnBrExpr" /\ last.res = "Ok"
  /\ TcLabel(reader.typechecker, last.args[1]).label_type = "Loop"
  /\ reader.istream[reader.istream_offset - 4] = Opcode.Br
  /\ ReadI32(reader.istream, reader.istream_offset - 4)
       = GetLabel([r |-> reader], last.args[1]).offset
  /\ ReadI32(reader.istream, reader.istream_offset - 4) < reader.istream_offset - 4
  /\ PendingFixups(reader) = {}

(***************************************************************************)
(* C29.  Branch drop/keep: the keep count of a branch is 0 when the target *)
(* is a loop label and the number of results of the label otherwise; the   *)
(* drop count is 0 when the type checker is in the unreachable state and   *)
(* otherwise the height of the type stack minus the label's                *)
(* type_stack_limit minus the keep count.  For br the counts are taken     *)
(* before the type checker processes the branch.  Read from the bytes      *)
(* emitted by br, br_if and br_table.                                      *)
(***************************************************************************)
BranchKeep(tc, depth) ==
  IF TcLabel(tc, depth).label_type = "Loop" THEN 0 ELSE Len(TcLabel(tc, depth).sig)

BranchDrop(tc, depth) ==
  IF TcLabel(tc, 0).unreachable THEN 0
  ELSE (Len(tc.type_stack) - TcLabel(tc, depth).type_stack_limit) - BranchKeep(tc, depth)

\* The instructions that drop `drop` values under `keep` kept ones.
DropKeepCode(drop, keep) ==
  IF drop = 0 THEN << >>
  ELSE IF drop = 1 /\ keep = 0 THEN << Opcode.Drop >>
  ELSE << Opcode.DropKeep >> \o I32Bytes(drop) \o << keep >>

BrCode(tc, depth) ==
  DropKeepCode(BranchDrop(tc, depth), BranchKeep(tc, depth))
    \o << Opcode.Br >> \o I32Bytes(GetLabel(Cur, depth).offset)

BrTableEntryCounts(tc) ==
  \A entry \in BranchOperands :
    LET depth == BranchDepths[Cardinality({ o \in BranchOperands : o.at < entry.at }) + 1]
    IN /\ ReadI32(reader'.istream, entry.at + 4) = BranchDrop(tc, depth)
       /\ reader'.istream[entry.at + 9] = BranchKeep(tc, depth)

C29_Step ==
  (pc = "reading" /\ pc' = "reading" /\ dec.sec = "code") =>
    \* br: the type checker's state before the callback
    /\ last'.cb = "OnBrExpr" => EmittedBytes = BrCode(reader.typechecker, last'.args[1])
    \* br_if: the state after the condition has been popped
    /\ last'.cb = "OnBrIfExpr" =>
         EmittedBytes = << Opcode.BrUnless >> \o I32Bytes(reader'.istream_offset)
                          \o BrCode(reader'.typechecker, last'.args[1])
    \* br_table: the state after the index has been popped
    /\ last'.cb = "OnBrTableExpr" =>
         BrTableEntryCounts(typechecker_begin_br_table(reader.typechecker).tc)

C29_BranchDropKeep == [][C29_Step]_vars

\* A br to a loop [i32] with two values on the stack drops both and keeps
\* none.
C29_Witness ==
  /\ pc = "reading" /\ last.cb = "OnBrExpr" /\ last.res = "Ok"
  /\ TcLabel(reader.typechecker, last.args[1]).label_type = "Loop"
  /\ Len(TcLabel(reader.typechecker, last.args[1]).sig) = 1
  /\ SubSeq(reader.istream, reader.istream_offset - 10, reader.istream_offset - 4)
       = DropKeepCode(2, 0) \o << Opcode.Br >>

(***************************************************************************)
(* C30.  Return drop/keep: for a `return` at any nesting depth and for the *)
(* implicit return at EndFunctionBody, the counts are those of a branch to *)
(* the outermost (function) label with the number of parameters and locals *)
(* added to the drop count; the keep count is the function's result count; *)
(* the code emitted is EmitDropKeep(drop, keep) followed by Return.        *)
(***************************************************************************)
FunctionLabelDepth == Len(reader.typechecker.label_stack) - 1

ReturnCode ==
  LET func == CurrentFunc(Cur)
      keep == BranchKeep(reader.typechecker, FunctionLabelDepth)
      drop == BranchDrop(reader.typechecker, FunctionLabelDepth)
                + Len(func.param_and_local_types)
  IN DropKeepCode(drop, keep) \o << Opcode.Return >>

C30_Step ==
  (/\ pc = "reading" /\ pc' = "reading" /\ dec.sec = "code"
   /\ last'.cb \in {"OnReturnExpr", "EndFunctionBody"}) =>
    /\ EmittedBytes = ReturnCode
    /\ BranchKeep(reader.typechecker, FunctionLabelDepth)
         = Len(At(env.sigs, CurrentFunc(Cur).sig_index).result_types)
    /\ FunctionLabelDepth = Len(reader.label_stack) - 1
    /\ TcLabel(reader.typechecker, FunctionLabelDepth).label_type = "Func"

C30_ReturnDropKeep == [][C30_Step]_vars

(***************************************************************************)
(* C31.  Drop/keep lowering: EmitDropKeep(drop, keep) emits nothing when   *)
(* drop = 0, whatever keep is; emits the single opcode Drop when drop = 1  *)
(* and keep = 0; in every other case emits DropKeep, the 4-byte drop and   *)
(* the 1-byte keep.  The write cursor advances by exactly 0, 1 or 6 bytes, *)
(* and nothing before the cursor changes.                                  *)
(***************************************************************************)
CursorAdvance == reader'.istream_offset - reader.istream_offset

WrittenBefore == SubSeq(reader.istream, 1, reader.istream_offset)

C31_Step ==
  last'.cb = "EmitDropKeep" =>
    LET drop == last'.args[1]
        keep == last'.args[2]
        at == reader.istream_offset
    IN /\ SubSeq(reader'.istream, 1, at) = WrittenBefore
       /\ drop = 0 => CursorAdvance = 0 /\ reader'.istream = reader.istream
       /\ (drop = 1 /\ keep = 0) =>
            CursorAdvance = 1 /\ reader'.istream[at + 1] = Opcode.Drop
       /\ (drop # 0 /\ ~(drop = 1 /\ keep = 0)) =>
            /\ CursorAdvance = 6
            /\ reader'.istream[at + 1] = Opcode.DropKeep
            /\ SubSeq(reader'.istream, at + 2, at + 5) = I32Bytes(drop)
            /\ reader'.istream[at + 6] = keep

C31_DropKeepLowering == [][C31_Step]_vars

\* One value dropped under one kept value: the six-byte form.
C31_Witness ==
  /\ last.cb = "EmitDropKeep" /\ last.args = <<1, 1>>
  /\ SubSeq(reader.istream, reader.istream_offset - 5, reader.istream_offset)
       = << Opcode.DropKeep, 1, 0, 0, 0, 1 >>

(***************************************************************************)
(* C32.  br_if lowering: OnBrIfExpr emits BrUnless with an operand, then   *)
(* the drop/keep sequence, then Br with the target of depth d; the         *)
(* BrUnless operand ends up holding the offset right after the Br's 4-byte *)
(* target, so the fall-through skips the drop/keep and the branch.  The    *)
(* drop/keep counts are those of the type stack without the condition.     *)
(***************************************************************************)
\* The height of the type stack once the condition, which an accepted br_if
\* found on top of it, is gone.
HeightWithoutCondition == Len(reader.typechecker.type_stack) - 1

BrIfKeep(depth) ==
  LET label == TcLabel(reader.typechecker, depth)
  IN IF label.label_type = "Loop" THEN 0 ELSE Len(label.sig)

BrIfDrop(depth) ==
  LET label == TcLabel(reader.typechecker, depth)
  IN IF TcLabel(reader.typechecker, 0).unreachable THEN 0
     ELSE (HeightWithoutCondition - label.type_stack_limit) - BrIfKeep(depth)

C32_Step ==
  (pc = "reading" /\ pc' = "reading" /\ last'.cb = "OnBrIfExpr") =>
    LET depth == last'.args[1]
        at == reader.istream_offset
        end == reader'.istream_offset
    IN /\ SubSeq(reader'.istream, 1, at) = WrittenBefore
       /\ reader'.istream[at + 1] = Opcode.BrUnless
       /\ ReadI32(reader'.istream, at + 1) = end
       /\ end = Len(reader'.istream)
       /\ SubSeq(reader'.istream, at + 6, end - 5)
            = DropKeepCode(BrIfDrop(depth), BrIfKeep(depth))
       /\ reader'.istream[end - 4] = Opcode.Br
       /\ ReadI32(reader'.istream, end - 4) = GetLabel(Cur, depth).offset

C32_BrIfLowering == [][C32_Step]_vars

\* A br_if to a loop with one value under the condition: the taken path
\* drops that value, the fall-through skips the Drop and the Br.
C32_Witness ==
  /\ pc = "reading" /\ last.cb = "OnBrIfExpr" /\ last.res = "Ok"
  /\ SubSeq(reader.istream, reader.istream_offset - 10, reader.istream_offset - 4)
       = << Opcode.BrUnless >> \o I32Bytes(reader.istream_offset)
           \o << Opcode.Drop, Opcode.Br >>
  /\ ReadI32(reader.istream, reader.istream_offset - 4) # kInvalidIstreamOffset

(***************************************************************************)
(* C33.  br_table layout: OnBrTableExpr with n targets emits BrTable, the  *)
(* 4-byte n, a 4-byte table offset T, the Data marker and a 4-byte length  *)
(* L, then exactly n + 1 entries of 4-byte target, 4-byte drop and 1-byte  *)
(* keep, in target order with the default target last.  T is the offset of *)
(* the first entry, and L = (n + 1) * 9 is the number of bytes between T   *)
(* and the write cursor when the callback returns Ok.                      *)
(***************************************************************************)
BrTableEntry(table_offset, k) ==
  LET at == table_offset + 9 * (k - 1)
  IN [target |-> ReadI32(reader'.istream, at),
      drop |-> ReadI32(reader'.istream, at + 4),
      keep |-> reader'.istream[at + 9]]

C33_Step ==
  (pc = "reading" /\ pc' = "reading" /\ last'.cb = "OnBrTableExpr") =>
    LET depths == Append(last'.args[1], last'.args[2])
        n == Len(last'.args[1])
        at == reader.istream_offset
        T == ReadI32(reader'.istream, at + 5)
        L == ReadI32(reader'.istream, at + 10)
        tc == typechecker_begin_br_table(reader.typechecker).tc
    IN /\ SubSeq(reader'.istream, 1, at) = WrittenBefore
       /\ reader'.istream[at + 1] = Opcode.BrTable
       /\ ReadI32(reader'.istream, at + 1) = n
       /\ reader'.istream[at + 10] = Opcode.Data
       /\ T = at + 14
       /\ L = (n + 1) * 9
       /\ reader'.istream_offset = T + L
       /\ Len(reader'.istream) = T + L
       /\ \A k \in 1..(n + 1) :
            BrTableEntry(T, k) = [target |-> GetLabel(Cur, depths[k]).offset,
                                  drop |-> BranchDrop(tc, depths[k]),
                                  keep |-> BranchKeep(tc, depths[k])]

C33_BrTableLayout == [][C33_Step]_vars

\* A table of one target and the default whose entries differ: a loop's
\* offset first, the sentinel of a forward target last.
C33_Witness ==
  /\ pc = "reading" /\ last.cb = "OnBrTableExpr" /\ last.res = "Ok"
  /\ Len(last.args[1]) = 1
  /\ ReadI32(reader.istream, reader.istream_offset - 18) >= 0
  /\ ReadI32(reader.istream, reader.istream_offset - 9) = kInvalidIstreamOffset
  /\ ReadI32(reader.istream, reader.istream_offset - 22) = 18
  /\ ReadI32(reader.istream, reader.istream_offset - 27) = reader.istream_offset - 18

(***************************************************************************)
(* C34.  Patch locality: the write cursor never decreases during a         *)
(* translation, and every in-place patch writes 4 bytes at an offset o     *)
(* with istream_start <= o and o + 4 <= the write cursor; so a patch never *)
(* reaches bytes not yet written and never modifies the bytecode of a      *)
(* module translated before.                                               *)
(***************************************************************************)
\* The offsets recorded for a later patch: the pending branch fixups, the
\* call fixups and the operands of the open ifs.
PatchSites(r) ==
  { f.at : f \in PendingFixups(r) }
    \cup UNION { { r.func_fixups[d][k] : k \in 1..Len(r.func_fixups[d]) } :
                 d \in 1..Len(r.func_fixups) }
    \cup OpenIfOperands(r)

PatchSitesAreLocal(r) ==
  \A o \in PatchSites(r) : PreCallIstreamSize <= o /\ o + 4 <= r.istream_offset

\* The bytes below the old cursor that this step has changed.
PatchedBytes ==
  { i \in 1..reader.istream_offset : reader'.istream[i] # reader.istream[i] }

C34_Step ==
  (pc = "reading" /\ pc' \in {"reading", "failed"}) =>
    /\ reader'.istream_offset >= reader.istream_offset
    /\ Len(reader'.istream) = reader'.istream_offset
    /\ SubSeq(reader'.istream, 1, PreCallIstreamSize) = Env0.istream
    /\ PatchSitesAreLocal(reader)
    /\ PatchSitesAreLocal(reader')
    /\ \A i \in PatchedBytes : \E o \in PatchSites(reader) : o < i /\ i <= o + 4

C34_PatchLocality == [][C34_Step]_vars

\* An `end` has patched, below the cursor, the operand of a forward branch
\* emitted by an earlier callback.
C34_Witness ==
  /\ pc = "reading" /\ last.cb = "OnEndExpr" /\ last.res = "Ok"
  /\ \E at \in (PreCallIstreamSize + 1)..(reader.istream_offset - 4) :
       /\ reader.istream[at] = Opcode.Br
       /\ ReadI32(reader.istream, at) = reader.istream_offset

(***************************************************************************)
(* C35.  Local index translation: for a valid source index i, get_local    *)
(* emits h + n - i where h is the height of the type stack before the      *)
(* push, set_local emits h' + n - i where h' is the height after the value *)
(* has been popped, and tee_local emits h'' + n - i where h'' is the       *)
(* height, which the tee leaves unchanged; n is the number of parameters   *)
(* and locals of the current function.  The emitted index is at least 1.   *)
(* An index i >= n returns Error and emits nothing.                        *)
(***************************************************************************)
LocalCallbacks == { "OnGetLocalExpr", "OnSetLocalExpr", "OnTeeLocalExpr" }

LocalOpcode ==
  [OnGetLocalExpr |-> Opcode.GetLocal, OnSetLocalExpr |-> Opcode.SetLocal,
   OnTeeLocalExpr |-> Opcode.TeeLocal]

HeightBefore == Len(reader.typechecker.type_stack)

HeightAfter == Len(reader'.typechecker.type_stack)

ParamAndLocalCount == Len(CurrentFunc(Cur).param_and_local_types)

EmittedLocalIndex == ReadI32(reader'.istream, reader.istream_offset + 1)

\* An instruction on a local has been emitted with the index computed from
\* the height h.
LocalEmitted(h) ==
  /\ CursorAdvance = 5
  /\ SubSeq(reader'.istream, 1, reader.istream_offset) = WrittenBefore
  /\ reader'.istream[reader.istream_offset + 1] = LocalOpcode[last'.cb]
  /\ EmittedLocalIndex = h + ParamAndLocalCount - last'.args[1]
  /\ EmittedLocalIndex >= 1

InvalidLocalRejected ==
  (pc = "reading" /\ last'.cb \in LocalCallbacks /\ last'.args[1] >= ParamAndLocalCount) =>
    /\ pc' = "failed" /\ last'.res = "Error"
    /\ reader'.istream = reader.istream /\ CursorAdvance = 0

GetAndSetTranslated ==
  (pc = "reading" /\ pc' = "reading") =>
    /\ last'.cb = "OnGetLocalExpr" => LocalEmitted(HeightBefore) /\ HeightAfter = HeightBefore + 1
    /\ last'.cb = "OnSetLocalExpr" => LocalEmitted(HeightAfter)

\* The claim's tee_local: the height is the same before and after.
C35_Step ==
  /\ InvalidLocalRejected
  /\ GetAndSetTranslated
  /\ (pc = "reading" /\ pc' = "reading" /\ last'.cb = "OnTeeLocalExpr") =>
       LocalEmitted(HeightAfter) /\ HeightAfter = HeightBefore

C35_StepReachableTee ==
  /\ InvalidLocalRejected
  /\ GetAndSetTranslated
  /\ (pc = "reading" /\ pc' = "reading" /\ last'.cb = "OnTeeLocalExpr") =>
       /\ LocalEmitted(HeightAfter)
       /\ ~TcLabel(reader.typechecker, 0).unreachable => HeightAfter = HeightBefore

ElemWritesTo(table, slot) ==
  { k \in 1..Len(reader.elem_segment_infos) :
      /\ reader.elem_segment_infos[k].table = table
      /\ reader.elem_segment_infos[k].slot = slot }

DataCopiesOver(memory, address) ==
  { k \in 1..Len(reader.data_segment_infos) :
      LET info == reader.data_segment_infos[k]
      IN info.memory = memory /\ info.address <= address /\ address < info.address + info.size }

Latest(S) == CHOOSE k \in S : \A j \in S : j <= k

MemoryByte(memory, address) ==
  IF address \in DOMAIN memory.data THEN memory.data[address] ELSE 0

CopiedAddresses ==
  UNION { { reader.data_segment_infos[k].address + j :
              j \in 0..(reader.data_segment_infos[k].size - 1) } :
          k \in 1..Len(reader.data_segment_infos) }

\* After EndModule every slot and every byte holds the value of the latest
\* recorded write to it, or what it held before.
LatestWriteWins ==
  last'.cb = "EndModule" =>
    /\ \A t \in 1..Len(env.tables) : \A slot \in 1..Len(env.tables[t].func_indexes) :
         env'.tables[t].func_indexes[slot] =
           IF ElemWritesTo(t - 1, slot - 1) = {} THEN env.tables[t].func_indexes[slot]
           ELSE reader.elem_segment_infos[Latest(ElemWritesTo(t - 1, slot - 1))].func_index
    /\ \A m \in 1..Len(env.memories) :
         \A address \in CopiedAddresses \cup DOMAIN env.memories[m].data :
           MemoryByte(env'.memories[m], address) =
             IF DataCopiesOver(m - 1, address) = {} THEN MemoryByte(env.memories[m], address)
             ELSE LET info == reader.data_segment_infos[Latest(DataCopiesOver(m - 1, address))]
                  IN info.src_data[address - info.address + 1]

\* The first function index of a segment goes to the slot of the segment's
\* offset, each following one to the next slot, as the function's index in
\* the environment.
ElementSlots ==
  /\ (pc' = "reading" /\ last'.cb = "EndElemSegmentInitExpr") =>
       reader'.table_offset = reader.init_expr_value.value
  /\ (pc' = "reading" /\ last'.cb = "OnElemSegmentFunctionIndex") =>
       /\ reader'.elem_segment_infos =
            Append(reader.elem_segment_infos,
                   [table |-> TableIndex, slot |-> reader.table_offset,
                    func_index |-> reader.func_index_mapping[last'.args[2] + 1]])
       /\ reader'.table_offset = reader.table_offset + 1
       /\ reader'.init_expr_value = reader.init_expr_value
       /\ reader.table_offset >= reader.init_expr_value.value
       /\ UNCHANGED env

DataCopiesRecorded ==
  (pc' = "reading" /\ last'.cb = "OnDataSegmentData" /\ last'.args[3] > 0) =>
    /\ reader'.data_segment_infos =
         Append(reader.data_segment_infos,
                [memory |-> MemoryIndex, address |-> reader.init_expr_value.value,
                 src_data |-> last'.args[2], size |-> last'.args[3]])
    /\ UNCHANGED env

C36_Step == pc = "reading" => (LatestWriteWins /\ ElementSlots /\ DataCopiesRecorded)

C36_CommitOrder == [][C36_Step]_vars

\* Two element segments have written different functions to the same slot
\* and two data segments different bytes to the same address: the table and
\* the memory hold the later ones.
C36_Witness ==
  /\ pc = "ended" /\ last.cb = "EndModule"
  /\ \E j, k \in 1..Len(reader.elem_segment_infos) :
       /\ j < k
       /\ reader.elem_segment_infos[j].slot = reader.elem_segment_infos[k].slot
       /\ reader.elem_segment_infos[j].func_index # reader.elem_segment_infos[k].func_index
       /\ At(At(env.tables, TableIndex).func_indexes, reader.elem_segment_infos[k].slot)
            = reader.elem_segment_infos[k].func_index
  /\ Len(reader.data_segment_infos) = 2
  /\ reader.data_segment_infos[1].address = 0 /\ reader.data_segment_infos[1].size = 2
  /\ reader.data_segment_infos[2].address = 1
  /\ MemoryByte(At(env.memories, MemoryIndex), 1) = 7

(***************************************************************************)
(* C37.  Fixup lists and label lifetime: at every callback boundary inside *)
(* a function body depth_fixups has at most as many entries as the label   *)
(* stack, and whenever PopLabel truncates depth_fixups the lists it        *)
(* removes are empty: no pending branch fixup is discarded unpatched when  *)
(* its label is popped.                                                    *)
(***************************************************************************)
InFunctionBody(r) == r.current_func # kInvalidIndex

FixupListsWithinLabels(r) == Len(r.depth_fixups) <= Len(r.label_stack)

\* The fixups that were pending before the step and are not after it.
FixupsGone == PendingFixups(reader) \ PendingFixups(reader')

C37_Step ==
  (pc = "reading" /\ dec.sec = "code") =>
    /\ InFunctionBody(reader) => FixupListsWithinLabels(reader)
    /\ InFunctionBody(reader') => FixupListsWithinLabels(reader')
    /\ \A f \in FixupsGone :
         /\ ReadI32(reader.istream, f.at) = kInvalidIstreamOffset
         /\ ReadI32(reader'.istream, f.at) = reader.istream_offset
         /\ f.depth = Len(reader.label_stack) - 1
         /\ last'.cb \in {"OnEndExpr", "EndFunctionBody"}

C37_FixupLifetime == [][C37_Step]_vars

\* An `end` has popped a label whose list held a fixup, and depth_fixups
\* has been cut down to the labels that remain.
C37_Witness ==
  /\ pc = "reading" /\ last.cb = "OnEndExpr" /\ last.res = "Ok"
  /\ Len(reader.label_stack) = 1 /\ Len(reader.depth_fixups) = 1
  /\ reader.depth_fixups[1] = <<>>
  /\ ReadI32(reader.istream, reader.istream_offset - 4) = reader.istream_offset
  /\ reader.istream[reader.istream_offset - 4] = Opcode.Br

(***************************************************************************)
(* C38.  Label stacks stay in step: inside a function body, after every    *)
(* callback that returns Ok, the translator's label_stack has exactly as   *)
(* many entries as the type checker's label stack; so every GetLabel and   *)
(* TopLabel call is made with a depth below the size of label_stack (the   *)
(* assertion in GetLabel holds), each depth having first been accepted by  *)
(* the type checker.                                                       *)
(***************************************************************************)
LabelStacksInStep(r) == Len(r.label_stack) = Len(r.typechecker.label_stack)

\* The depths with which the callback of this step calls GetLabel: those of
\* the branch targets the type checker knows, and 0 (TopLabel) at an else
\* and at the end of an if.
GetLabelDepths ==
  CASE last'.cb \in {"OnBrExpr", "OnBrIfExpr"} /\ last'.res = "Ok" -> { last'.args[1] }
    [] last'.cb = "OnBrTableExpr" ->
         { d \in { last'.args[1][k] : k \in 1..Len(last'.args[1]) } \cup { last'.args[2] } :
             HasLabel(reader.typechecker, d) }
    [] last'.cb = "OnElseExpr" /\ last'.res = "Ok" -> { 0 }
    [] last'.cb = "OnEndExpr" /\ last'.res = "Ok" -> { 0 }
    [] OTHER -> {}

C38_Step ==
  (pc = "reading" /\ dec.sec = "code") =>
    /\ InFunctionBody(reader) => LabelStacksInStep(reader)
    /\ (pc' = "reading" /\ InFunctionBody(reader')) => LabelStacksInStep(reader')
    /\ \A depth \in GetLabelDepths : depth >= 0 /\ depth < Len(reader.label_stack)

C38_LabelStacksInStep == [][C38_Step]_vars

\* A branch out of two nested labels has been translated with three labels
\* on both stacks.
C38_Witness ==
  /\ pc = "reading" /\ last.cb \in {"OnBrExpr", "OnBrIfExpr"} /\ last.res = "Ok"
  /\ last.args = <<1>>
  /\ Len(reader.label_stack) = 3 /\ Len(reader.typechecker.label_stack) = 3

(***************************************************************************)
(* C39.  EmitDropKeep's preconditions hold at every call: whenever         *)
(* EmitDropKeep is reached (from br, br_if, return or EndFunctionBody),    *)
(* drop is not UINT32_MAX and keep <= 1.  The unsigned subtraction         *)
(* height - limit - keep in GetBrDropKeepCount wraps only for a stack that *)
(* the following type-checker call rejects, and then the callback returns  *)
(* Error before anything is emitted.  A count below 0 stands for the       *)
(* wrapped 32-bit pattern, -1 for UINT32_MAX.                              *)
(***************************************************************************)
Wraps(tc, depth) == BranchDrop(tc, depth) < 0

RejectedUnemitted ==
  /\ pc' = "failed" /\ last'.res = "Error"
  /\ CursorAdvance = 0 /\ Len(reader'.istream) = Len(reader.istream)

\* The counts EmitDropKeep is called with are in its domain.
DropKeepAllowed(drop, keep) == drop >= 0 /\ drop # -1 /\ keep \in {0, 1}

\* A DropKeep instruction at offset `at` of the new istream carries counts
\* in the domain.
EmittedCountsAllowed(at) ==
  reader'.istream[at + 1] = Opcode.DropKeep =>
    /\ ReadI32(reader'.istream, at + 1) >= 1
    /\ reader'.istream[at + 6] \in {0, 1}

C39_Step ==
  (pc = "reading" /\ dec.sec = "code") =>
    LET tc == reader.typechecker
        ok == last'.res = "Ok"
        n == Len(CurrentFunc(Cur).param_and_local_types)
        outermost == Len(reader.label_stack) - 1
    IN /\ (last'.cb = "OnBrExpr" /\ HasLabel(tc, last'.args[1])) =>
            LET depth == last'.args[1]
            IN /\ Wraps(tc, depth) => RejectedUnemitted
               /\ ok => /\ DropKeepAllowed(BranchDrop(tc, depth), BranchKeep(tc, depth))
                         /\ EmittedCountsAllowed(reader.istream_offset)
       /\ (last'.cb = "OnBrIfExpr" /\ ok) =>
            /\ DropKeepAllowed(BranchDrop(reader'.typechecker, last'.args[1]),
                               BranchKeep(reader'.typechecker, last'.args[1]))
            /\ EmittedCountsAllowed(reader.istream_offset + 5)
       /\ (last'.cb \in {"OnReturnExpr", "EndFunctionBody"} /\ HasLabel(tc, outermost)) =>
            /\ Wraps(tc, outermost) => RejectedUnemitted
            /\ ok => /\ DropKeepAllowed(BranchDrop(tc, outermost) + n, BranchKeep(tc, outermost))
                      /\ ~Wraps(tc, outermost)
                      /\ EmittedCountsAllowed(reader.istream_offset)

C39_DropKeepPreconditions == [][C39_Step]_vars

\* A br to a block [i32] with no value above the block's limit: the
\* subtraction wrapped, the type checker rejected the branch, and the
\* istream ends where it ended before.
C39_Witness ==
  /\ pc = "failed" /\ last.cb = "OnBrExpr" /\ last.res = "Error"
  /\ HasLabel(reader.typechecker, last.args[1])
  /\ LET label == TcLabel(reader.typechecker, last.args[1])
     IN /\ label.label_type = "Block" /\ Len(label.sig) = 1
        /\ Len(reader.typechecker.type_stack) = label.type_stack_limit
  /\ Len(reader.istream) = reader.istream_offset
  /\ reader.istream[reader.istream_offset] # Opcode.Br

(***************************************************************************)
(* C40.  Single patch per fixup site: every in-place patch overwrites a    *)
(* 4-byte operand field that holds kInvalidIstreamOffset at the moment of  *)
(* the patch, and each such field (if/else operand, br_if skip operand,    *)
(* br_table offset operand, depth fixup, function-call fixup) is patched   *)
(* exactly once during a translation; no patch overwrites an opcode byte   *)
(* or an operand that was emitted with a resolved value.                   *)
(***************************************************************************)
\* The recorded operand fields that hold the sentinel.
UnpatchedSites ==
  { operand.at : operand \in { o \in ModuleOffsetOperands :
                                  o.value = kInvalidIstreamOffset /\ o.at \in PatchSites(reader) } }

\* Every byte changed below the old cursor lies in the operand field of a
\* recorded site that held the sentinel, and the site is resolved and no
\* longer waits for a patch.
PatchesHitUnpatchedSites ==
  \A i \in PatchedBytes :
    \E o \in UnpatchedSites :
      /\ o < i /\ i <= o + 4
      /\ ReadI32(reader'.istream, o) = reader.istream_offset
         \/ (last'.cb = "OnElseExpr" /\ ReadI32(reader'.istream, o) = reader'.istream_offset)
      /\ o \notin { f.at : f \in PendingFixups(reader') } \cup OpenIfOperands(reader')

\* An operand that holds a resolved value keeps it.
ResolvedOperandsKept ==
  \A operand \in ModuleOffsetOperands :
    operand.value # kInvalidIstreamOffset =>
      ReadI32(reader'.istream, operand.at) = operand.value

\* The branch and if/else sites that wait for a patch hold the sentinel.
WaitingSitesHoldSentinel(r) ==
  \A o \in { f.at : f \in PendingFixups(r) } \cup OpenIfOperands(r) :
    ReadI32(r.istream, o) = kInvalidIstreamOffset

\* The operands a callback emits and patches itself are resolved when it
\* returns.
OwnOperandsResolved ==
  /\ (last'.cb = "OnBrIfExpr" /\ last'.res = "Ok") =>
       ReadI32(reader'.istream, reader.istream_offset + 1) = reader'.istream_offset
  /\ (last'.cb = "OnBrTableExpr" /\ last'.res = "Ok") =>
       ReadI32(reader'.istream, reader.istream_offset + 5) = reader.istream_offset + 14

C40_Step ==
  (pc = "reading" /\ dec.sec = "code") =>
    /\ PatchesHitUnpatchedSites
    /\ ResolvedOperandsKept
    /\ WaitingSitesHoldSentinel(reader)
    /\ pc' = "reading" => WaitingSitesHoldSentinel(reader')
    /\ OwnOperandsResolved

C40_SinglePatch == [][C40_Step]_vars

\* The `end` of an if with an else arm: the condition's operand, patched at
\* the else, is left alone, and the operand of the else's Br is patched.
C40_Witness ==
  /\ pc = "reading" /\ last.cb = "OnEndExpr" /\ last.res = "Ok"
  /\ \E cond, br \in ModuleOffsetOperands :
       /\ cond.kind = "BrUnless" /\ br.kind = "Br"
       /\ cond.value = br.at + 4
       /\ br.value = reader.istream_offset
       /\ br.at > cond.at + 5

====
